---- MODULE Spec2Model ----
(***************************************************************************)
(* Ocea Collector: the coordinator's poll (fetch outcome, reconciliation   *)
(* of every fluid against its persisted baseline, statistics backfill and  *)
(* same-day correction, store save).                                       *)
(*                                                                         *)
(* Quantities (totals, per-day states, sums) are exact decimals counted in *)
(* millionths of the fluid's unit, so that both the 1e-6 tolerance and the *)
(* rounding to 3 decimals are visible.  Dates are proleptic Gregorian      *)
(* ordinals (date.toordinal()); an ISO date string is the triple           *)
(* <<year, month, day>> it spells.  Python's None is the empty tuple and   *)
(* a present optional value x is <<x>>.                                    *)
(***************************************************************************)
EXTENDS Integers, Sequences, FiniteSets, TLC

\* ------------------------------------------------------------------ bounds
\* Number of consecutive days of the modelled window, after FirstDay.
SpanDays == 3
\* How many rungs of TotalLadder the provider may report.
NumLevels == 2

\* ------------------------------------------------------- optional values
None == <<>>
Some(x) == <<x>>
Get(o) == o[1]
IsNone(o) == o = <<>>

\* One unit of a fluid (1 L, 1 kWh) in millionths.
Unit == 1000000
\* The tolerance 1e-6 of the value classification, in millionths.
Epsilon == 1
\* 10 ** -3, the rounding step of round(x, 3), in millionths.
Milli == 1000

\* ------------------------------------------------------------- calendar
\* date.toordinal() of year-month-day (proleptic Gregorian, 0001-01-01 = 1).
Ordinal(y, m, d) ==
    LET yy  == IF m <= 2 THEN y - 1 ELSE y
        era == yy \div 400
        yoe == yy - era * 400
        mp  == IF m > 2 THEN m - 3 ELSE m + 9
        doy == (153 * mp + 2) \div 5 + d - 1
        doe == yoe * 365 + yoe \div 4 - yoe \div 100 + doy
    IN  era * 146097 + doe - 305

\* date.fromordinal(n) as <<year, month, day>>.
YMD(n) ==
    LET z   == n + 305
        era == z \div 146097
        doe == z % 146097
        yoe == (doe - doe \div 1460 + doe \div 36524 - doe \div 146096) \div 365
        doy == doe - (365 * yoe + yoe \div 4 - yoe \div 100)
        mp  == (5 * doy + 2) \div 153
        d   == doy - (153 * mp + 2) \div 5 + 1
        m   == IF mp < 10 THEN mp + 3 ELSE mp - 9
        y   == yoe + era * 400 + (IF m <= 2 THEN 1 ELSE 0)
    IN  <<y, m, d>>

\* The calendar of the days the model can reach (2022-12-01 .. 2024-03-31),
\* tabulated once.
Calendar == [n \in Ordinal(2022, 12, 1) .. Ordinal(2024, 3, 31) |-> YMD(n)]

YearOf(n) == Calendar[n][1]
MonthOf(n) == Calendar[n][2]
DayOf(n) == Calendar[n][3]

\* date.isoformat(): the string spelling year, month and day.
IsoFormat(n) == Calendar[n]

\* date.replace(day=1)
ReplaceDay1(n) == n - (DayOf(n) - 1)

\* _parse_date: None for a falsy or unparseable string, else the date.
\* The result is an optional ordinal.
ParseDate(value) ==
    IF Len(value) # 3 THEN None
    ELSE LET n == Ordinal(value[1], value[2], value[3])
         IN  IF value[2] \in 1..12 /\ value[3] >= 1 /\ n \in DOMAIN Calendar
                /\ Calendar[n] = value
             THEN Some(n) ELSE None

\* The integer nearest to n / d (d > 0), ties to even.  Python's round
\* settles a tie by the binary value of the float; the modelled totals
\* (whole units, and one a millionth below) never produce a tie.
RoundDiv(n, d) ==
    LET q == n \div d
        r == n % d
    IN  IF 2 * r < d THEN q
        ELSE IF 2 * r > d THEN q + 1
        ELSE IF q % 2 = 0 THEN q ELSE q + 1

\* round(x, 3) of x = n / days, in millionths.
Round3(n, days) == Milli * RoundDiv(n, Milli * days)


\* ------------------------------------------------------------- fluids
\* FLUIDS, in iteration order, and each fluid's unit.
FLUIDS == <<"eau_froide", "eau_chaude", "cetc">>
FluidKeys == {FLUIDS[i] : i \in 1..Len(FLUIDS)}
UnitOf(key) == IF key = "cetc" THEN "kWh" ELSE "L"

\* ------------------------------------------------- modelled environment
\* The first modelled day, 2023-01-30: the window spans a month boundary.
FirstDay == Ordinal(2023, 1, 30)
\* A day of the same month number one year later.
FarDay == Ordinal(2024, 1, 30)
Days == (FirstDay .. FirstDay + SpanDays) \cup {FarDay}

\* Totals the provider may report, in units.
TotalLadder == <<10, 12, 40, 95>>
Levels == {TotalLadder[i] * Unit : i \in 1..NumLevels}

\* latest_value of the fully varied fluid: absent, negative, zero, a positive
\* ladder, and one value within the tolerance below the first rung.
RichValues ==
    {None, Some(-Unit), Some(0), Some(TotalLadder[1] * Unit - Epsilon)}
        \cup {Some(v) : v \in Levels}
\* The consumption query of fetch spans the trailing 30 days up to today.
QueryDays == 30

\* latest_date strings: absent, or a modelled day within the queried range.
RichDates(now) ==
    {None} \cup {IsoFormat(d) : d \in {x \in Days : now - QueryDays <= x /\ x <= now}}

\* The snapshots _parse_conso may hand over for each fluid.  One fluid is
\* varied fully (less so in the runs where fetch may also raise); the others
\* are varied just enough to act.
Snapshots(key, now, reduced) ==
    IF key = "eau_froide"
    THEN IF reduced
         THEN [latest_value : {None, Some(TotalLadder[1] * Unit)},
               latest_date : {None}, leak_estimate : {None}]
         ELSE [latest_value : RichValues, latest_date : RichDates(now),
               leak_estimate : {None}]
    ELSE IF key = "eau_chaude"
    THEN [latest_value : {Some(TotalLadder[1] * Unit)},
          latest_date : {IsoFormat(FirstDay)}, leak_estimate : {None}]
    ELSE [latest_value : {None}, latest_date : {None}, leak_estimate : {None}]

\* What fetch may return on a given day.
RawChoices(now, reduced) ==
    {[k \in FluidKeys |-> IF k = "eau_froide" THEN a ELSE IF k = "eau_chaude" THEN b ELSE c] :
        a \in Snapshots("eau_froide", now, reduced),
        b \in Snapshots("eau_chaude", now, reduced),
        c \in Snapshots("cetc", now, reduced)}

\* The fluids whose statistics calls may raise.
RaisingFluids == {"eau_froide"}

\* --------------------------------------------------- statistics sink
\* Offset of local time from UTC, in hours (the recorder keys points by the
\* UTC instant of the local midnight).
UtcOffsetHours == 1

\* dt_util.start_of_local_day(day), in hours since ordinal 0, 00:00 UTC.
StartOfLocalDay(day) == day * 24 - UtcOffsetHours

\* datetime.fromtimestamp(start).date()
DateFromTimestamp(start) == (start + UtcOffsetHours) \div 24

\* _get_statistics_metadata: None for a unit with no unit class.
GetStatisticsMetadata(key, unit) ==
    IF unit \in {"m3", "L", "kWh"} THEN Some(key) ELSE None

\* A fluid's series in the recorder is held as its latest point (None for
\* an empty series): get_last_statistics(hass, 1, ...) is all the
\* coordinator ever reads of it.
\* _get_last_stat: the series' latest point, or None.
GetLastStat(series) == series

\* The later of two points; a point replaces the one stored under its start.
LaterPoint(last, pt) ==
    IF IsNone(last) \/ Get(last).start <= pt.start THEN Some(pt) ELSE last

\* async_add_external_statistics: each point is stored under its start,
\* replacing a stored point with the same start.  The points come ordered by
\* start (the range loop builds them day after day), so the last one decides
\* the series' latest point.
AddExternalStatistics(series, stats) ==
    IF Len(stats) = 0 THEN series
    ELSE LaterPoint(series, stats[Len(stats)])

\* RangePoints whose offsets start at the window's first day.
RangePoints_FromZero(stats_start, days_between, per_day, sum_value) ==
    [offset \in 1..days_between |->
        [start |-> StartOfLocalDay(stats_start + offset - 1),
         state |-> per_day,
         sum   |-> sum_value + offset * per_day]]

\* The points of the range loop: one per day stats_start+1 .. stats_start+n,
\* each adding per_day to the running sum.
RangePoints(stats_start, days_between, per_day, sum_value) ==
    [offset \in 1..days_between |->
        [start |-> StartOfLocalDay(stats_start + offset),
         state |-> per_day,
         sum   |-> sum_value + offset * per_day]]

\* _update_statistics_range that starts from the window start whatever the
\* sink's latest point.
UpdateStatisticsRange_IgnoresLastPoint(series, key, unit, start_date, end_date, per_day) ==
    LET last_stat == GetLastStat(series)
        sum_value == IF ~IsNone(last_stat) /\ Get(last_stat).sum # 0
                     THEN Get(last_stat).sum ELSE 0
        days_between == end_date - start_date
    IN  IF per_day < 0 THEN <<>>
        ELSE IF days_between <= 0 THEN <<>>
        ELSE IF IsNone(GetStatisticsMetadata(key, unit)) THEN <<>>
        ELSE RangePoints(start_date, days_between, per_day, sum_value)

\* _update_statistics_range: the points it hands to
\* async_add_external_statistics (none when it returns early).
UpdateStatisticsRange(series, key, unit, start_date, end_date, per_day) ==
    LET last_stat == GetLastStat(series)
        sum_value == IF ~IsNone(last_stat) /\ Get(last_stat).sum # 0
                     THEN Get(last_stat).sum ELSE 0
        last_stat_date == IF ~IsNone(last_stat)
                          THEN Some(DateFromTimestamp(Get(last_stat).start))
                          ELSE None
        stats_start == IF ~IsNone(last_stat_date) /\ Get(last_stat_date) > start_date
                       THEN Get(last_stat_date) ELSE start_date
        days_between == end_date - stats_start
    IN  IF per_day < 0 THEN <<>>
        ELSE IF days_between <= 0 THEN <<>>
        ELSE IF IsNone(GetStatisticsMetadata(key, unit)) THEN <<>>
        ELSE RangePoints(stats_start, days_between, per_day, sum_value)

\* _update_statistics_correction that adds the new state to the old sum.
UpdateStatisticsCorrection_SumAdds(series, key, unit, day, delta) ==
    LET last_stat  == GetLastStat(series)
        last_state == Get(last_stat).state
        last_sum   == Get(last_stat).sum
        new_state  == Round3(last_state + delta, 1)
        new_sum    == last_sum + new_state
        nothing    == [corrected |-> None, stats |-> <<>>]
    IN  IF delta <= 0 THEN nothing
        ELSE IF IsNone(last_stat) THEN nothing
        ELSE IF DateFromTimestamp(Get(last_stat).start) # day THEN nothing
        ELSE IF new_state < 0 THEN nothing
        ELSE IF IsNone(GetStatisticsMetadata(key, unit)) THEN nothing
        ELSE [corrected |-> Some(new_state),
              stats |-> <<[start |-> StartOfLocalDay(day),
                           state |-> new_state,
                           sum   |-> new_sum]>>]

\* _update_statistics_correction that rewrites the sink's last point
\* whatever its date.
UpdateStatisticsCorrection_AnyDate(series, key, unit, day, delta) ==
    LET last_stat  == GetLastStat(series)
        last_state == Get(last_stat).state
        last_sum   == Get(last_stat).sum
        new_state  == Round3(last_state + delta, 1)
        new_sum    == last_sum - last_state + new_state
        nothing    == [corrected |-> None, stats |-> <<>>]
    IN  IF delta <= 0 THEN nothing
        ELSE IF IsNone(last_stat) THEN nothing
        ELSE IF new_state < 0 THEN nothing
        ELSE IF IsNone(GetStatisticsMetadata(key, unit)) THEN nothing
        ELSE [corrected |-> Some(new_state),
              stats |-> <<[start |-> Get(last_stat).start,
                           state |-> new_state,
                           sum   |-> new_sum]>>]

\* _update_statistics_correction: the corrected state it returns (or None)
\* and the points it hands to async_add_external_statistics.
UpdateStatisticsCorrection(series, key, unit, day, delta) ==
    LET last_stat  == GetLastStat(series)
        last_state == Get(last_stat).state
        last_sum   == Get(last_stat).sum
        new_state  == Round3(last_state + delta, 1)
        new_sum    == last_sum - last_state + new_state
        nothing    == [corrected |-> None, stats |-> <<>>]
    IN  IF delta <= 0 THEN nothing
        ELSE IF IsNone(last_stat) THEN nothing
        ELSE IF DateFromTimestamp(Get(last_stat).start) # day THEN nothing
        ELSE IF new_state < 0 THEN nothing
        ELSE IF IsNone(GetStatisticsMetadata(key, unit)) THEN nothing
        ELSE [corrected |-> Some(new_state),
              stats |-> <<[start |-> StartOfLocalDay(day),
                           state |-> new_state,
                           sum   |-> new_sum]>>]

\* EffectiveDate that replaces a 1st of a month only when today is later and
\* in another month.
EffectiveDate_AnotherMonth(api_date, now) ==
    IF IsNone(api_date)
       \/ (/\ DayOf(Get(api_date)) = 1
           /\ now > Get(api_date)
           /\ (YearOf(now) # YearOf(Get(api_date)) \/ MonthOf(now) # MonthOf(Get(api_date))))
    THEN Some(now - 1)
    ELSE api_date

\* ------------------------------------------------------ reconciliation
\* Effective date: the reported date, or yesterday when it is absent or is a
\* 1st of a month while today is not.
EffectiveDate(api_date, now) ==
    IF IsNone(api_date) \/ (DayOf(Get(api_date)) = 1 /\ DayOf(now) > 1)
    THEN Some(now - 1)
    ELSE api_date

\* TentativeStatus without the test of the reading's date against the
\* baseline date.
TentativeStatus_NoDateCheck(current_total, current_date, last_total, last_total_at) ==
    IF IsNone(current_total) \/ IsNone(current_date) THEN "missing"
    ELSE IF Get(current_total) < 0 THEN "invalid"
    ELSE IF ~IsNone(last_total) /\ ~IsNone(last_total_at)
    THEN IF MonthOf(Get(current_date)) = MonthOf(Get(last_total_at))
         THEN IF Get(current_total) = 0 /\ Get(last_total) > 0 THEN "invalid"
              ELSE IF Get(current_total) + Epsilon < Get(last_total) THEN "invalid"
              ELSE "ok"
         ELSE "ok"
    ELSE "ok"

\* TentativeStatus without the test for a total below the baseline total.
TentativeStatus_NoDecreaseCheck(current_total, current_date, last_total, last_total_at) ==
    IF IsNone(current_total) \/ IsNone(current_date) THEN "missing"
    ELSE IF Get(current_total) < 0 THEN "invalid"
    ELSE IF ~IsNone(last_total) /\ ~IsNone(last_total_at)
    THEN IF Get(current_date) < Get(last_total_at) THEN "invalid"
         ELSE IF MonthOf(Get(current_date)) = MonthOf(Get(last_total_at))
         THEN IF Get(current_total) = 0 /\ Get(last_total) > 0 THEN "invalid"
              ELSE "ok"
         ELSE "ok"
    ELSE "ok"

\* TentativeStatus without the lines 196-197 that turn "unknown" into "ok".
TentativeStatus_KeepsUnknown(current_total, current_date, last_total, last_total_at) ==
    IF IsNone(current_total) \/ IsNone(current_date) THEN "missing"
    ELSE IF Get(current_total) < 0 THEN "invalid"
    ELSE IF ~IsNone(last_total) /\ ~IsNone(last_total_at)
    THEN IF Get(current_date) < Get(last_total_at) THEN "invalid"
         ELSE IF MonthOf(Get(current_date)) = MonthOf(Get(last_total_at))
         THEN IF Get(current_total) = 0 /\ Get(last_total) > 0 THEN "invalid"
              ELSE IF Get(current_total) + Epsilon < Get(last_total) THEN "invalid"
              ELSE "unknown"
         ELSE "unknown"
    ELSE "unknown"

\* TentativeStatus without the check for a negative total.
TentativeStatus_AllowsNegative(current_total, current_date, last_total, last_total_at) ==
    IF IsNone(current_total) \/ IsNone(current_date) THEN "missing"
    ELSE IF ~IsNone(last_total) /\ ~IsNone(last_total_at)
    THEN IF Get(current_date) < Get(last_total_at) THEN "invalid"
         ELSE IF MonthOf(Get(current_date)) = MonthOf(Get(last_total_at))
         THEN IF Get(current_total) = 0 /\ Get(last_total) > 0 THEN "invalid"
              ELSE IF Get(current_total) + Epsilon < Get(last_total) THEN "invalid"
              ELSE "ok"
         ELSE "ok"
    ELSE "ok"

\* The first classification of the reading ("unknown" ends as "ok").
TentativeStatus(current_total, current_date, last_total, last_total_at) ==
    IF IsNone(current_total) \/ IsNone(current_date) THEN "missing"
    ELSE IF Get(current_total) < 0 THEN "invalid"
    ELSE IF ~IsNone(last_total) /\ ~IsNone(last_total_at)
    THEN IF Get(current_date) < Get(last_total_at) THEN "invalid"
         ELSE IF MonthOf(Get(current_date)) = MonthOf(Get(last_total_at))
         THEN IF Get(current_total) = 0 /\ Get(last_total) > 0 THEN "invalid"
              ELSE IF Get(current_total) + Epsilon < Get(last_total) THEN "invalid"
              ELSE "ok"
         ELSE "ok"
    ELSE "ok"

\* StaleDowngrade that never downgrades.
StaleDowngrade_Never(status, current_total, current_date, last_total, last_total_at) ==
    status

\* An "ok" reading whose total is unchanged while the date advanced is stale.
StaleDowngrade(status, current_total, current_date, last_total, last_total_at) ==
    IF /\ status = "ok"
       /\ ~IsNone(current_total) /\ ~IsNone(last_total)
       /\ ~IsNone(current_date) /\ ~IsNone(last_total_at)
       /\ Get(current_total) = Get(last_total)
       /\ Get(current_date) > Get(last_total_at)
    THEN "stale" ELSE status

\* Fallback that keeps the reading when a baseline total exists.
Fallback_KeepReading(status, current_total, last_total) ==
    IF status \in {"missing", "invalid"}
    THEN IF ~IsNone(last_total)
         THEN [value_used |-> current_total, value_status |-> "stale"]
         ELSE [value_used |-> None, value_status |-> status]
    ELSE [value_used |-> current_total, value_status |-> status]

\* Fallback that reports no total for a reading it rejects.
Fallback_DropsValue(status, current_total, last_total) ==
    IF status \in {"missing", "invalid"}
    THEN IF ~IsNone(last_total)
         THEN [value_used |-> None, value_status |-> "stale"]
         ELSE [value_used |-> None, value_status |-> status]
    ELSE [value_used |-> current_total, value_status |-> status]

\* Fallback substitution: value_used and the final value_status.
Fallback(status, current_total, last_total) ==
    IF status \in {"missing", "invalid"}
    THEN IF ~IsNone(last_total)
         THEN [value_used |-> last_total, value_status |-> "stale"]
         ELSE [value_used |-> None, value_status |-> status]
    ELSE [value_used |-> current_total, value_status |-> status]


\* Delta window of a reading dated after the baseline: a negative delta
\* across a month change is a meter reset.
DeltaWindow(current_total, current_date, last_total, last_total_at) ==
    LET delta == current_total - last_total
    IN  IF delta < 0 /\ MonthOf(last_total_at) # MonthOf(current_date)
        THEN [delta |-> current_total,
              daily_source |-> Some("month_reset"),
              stats_start |-> ReplaceDay1(current_date) - 1]
        ELSE [delta |-> delta,
              daily_source |-> None,
              stats_start |-> last_total_at]

\* Same date as the baseline: negative delta, no change, or a correction of
\* the sink's last point (sink_raises: the sink call raised and was swallowed).
SameDayOutcome(series, key, unit, current_total, current_date, last_total, sink_raises) ==
    LET delta == current_total - last_total
        corr  == IF sink_raises THEN [corrected |-> None, stats |-> <<>>]
                 ELSE UpdateStatisticsCorrection(series, key, unit, current_date, delta)
    IN  IF delta < 0
        THEN [daily_value |-> None, daily_status |-> "invalid",
              daily_source |-> Some("negative_delta"), stats |-> <<>>,
              sink_called |-> FALSE]
        ELSE IF delta = 0
        THEN [daily_value |-> None, daily_status |-> "stale",
              daily_source |-> None, stats |-> <<>>, sink_called |-> FALSE]
        ELSE [daily_value |-> corr.corrected, daily_status |-> "corrected",
              daily_source |-> Some("same_day_correction"), stats |-> corr.stats,
              sink_called |-> TRUE]

\* OtherDayOutcome that also hands points to the sink when the total did not
\* change.
OtherDayOutcome_PushOnNoChange(series, key, unit, current_total, current_date, last_total, last_total_at, sink_raises) ==
    LET w == DeltaWindow(current_total, current_date, last_total, last_total_at)
        days_between == current_date - w.stats_start
        daily_value == Round3(w.delta, days_between)
    IN  IF days_between >= 1 /\ w.delta = 0
        THEN [daily_value |-> None, daily_status |-> "stale",
              daily_source |-> Some("no_change"),
              stats |-> UpdateStatisticsRange(series, key, unit, w.stats_start,
                                              current_date, daily_value),
              sink_called |-> TRUE]
        ELSE IF days_between >= 1 /\ w.delta >= 0
        THEN [daily_value |-> Some(daily_value),
              daily_status |-> IF days_between = 1 THEN "ok" ELSE "estimated",
              daily_source |-> IF ~IsNone(w.daily_source) THEN w.daily_source
                               ELSE IF days_between = 1 THEN Some("delta")
                               ELSE Some("multi_day_estimate"),
              stats |-> IF sink_raises THEN <<>>
                        ELSE UpdateStatisticsRange(series, key, unit, w.stats_start,
                                                   current_date, daily_value),
              sink_called |-> TRUE]
        ELSE IF days_between >= 1 /\ w.delta < 0
        THEN [daily_value |-> None, daily_status |-> "invalid",
              daily_source |-> Some("negative_delta"), stats |-> <<>>,
              sink_called |-> FALSE]
        ELSE [daily_value |-> None, daily_status |-> "unknown",
              daily_source |-> w.daily_source, stats |-> <<>>,
              sink_called |-> FALSE]

\* Another date than the baseline: per-day delta over the window, backfilled.
OtherDayOutcome(series, key, unit, current_total, current_date, last_total, last_total_at, sink_raises) ==
    LET w == DeltaWindow(current_total, current_date, last_total, last_total_at)
        days_between == current_date - w.stats_start
        daily_value == Round3(w.delta, days_between)
    IN  IF days_between >= 1 /\ w.delta = 0
        THEN [daily_value |-> None, daily_status |-> "stale",
              daily_source |-> Some("no_change"), stats |-> <<>>,
              sink_called |-> FALSE]
        ELSE IF days_between >= 1 /\ w.delta >= 0
        THEN [daily_value |-> Some(daily_value),
              daily_status |-> IF days_between = 1 THEN "ok" ELSE "estimated",
              daily_source |-> IF ~IsNone(w.daily_source) THEN w.daily_source
                               ELSE IF days_between = 1 THEN Some("delta")
                               ELSE Some("multi_day_estimate"),
              stats |-> IF sink_raises THEN <<>>
                        ELSE UpdateStatisticsRange(series, key, unit, w.stats_start,
                                                   current_date, daily_value),
              sink_called |-> TRUE]
        ELSE IF days_between >= 1 /\ w.delta < 0
        THEN [daily_value |-> None, daily_status |-> "invalid",
              daily_source |-> Some("negative_delta"), stats |-> <<>>,
              sink_called |-> FALSE]
        ELSE [daily_value |-> None, daily_status |-> "unknown",
              daily_source |-> w.daily_source, stats |-> <<>>,
              sink_called |-> FALSE]

\* Daily-delta derivation: daily value, status, source and the points handed
\* to the sink.
DailyDerivation(series, key, unit, value_status, value_used, current_total, current_date, last_total, last_total_at, sink_raises) ==
    IF value_status = "stale"
    THEN [daily_value |-> None, daily_status |-> "stale",
          daily_source |-> Some("stale_total"), stats |-> <<>>, sink_called |-> FALSE]
    ELSE IF value_status # "ok" /\ IsNone(value_used)
    THEN [daily_value |-> None, daily_status |-> "missing",
          daily_source |-> None, stats |-> <<>>, sink_called |-> FALSE]
    ELSE IF value_status # "ok"
    THEN [daily_value |-> None, daily_status |-> "invalid",
          daily_source |-> Some("invalid_total"), stats |-> <<>>, sink_called |-> FALSE]
    ELSE IF IsNone(last_total) \/ IsNone(last_total_at) \/ IsNone(current_date)
    THEN [daily_value |-> None, daily_status |-> "missing",
          daily_source |-> None, stats |-> <<>>, sink_called |-> FALSE]
    ELSE IF Get(current_date) = Get(last_total_at)
    THEN SameDayOutcome(series, key, unit, Get(current_total), Get(current_date),
                        Get(last_total), sink_raises)
    ELSE OtherDayOutcome(series, key, unit, Get(current_total), Get(current_date),
                         Get(last_total), Get(last_total_at), sink_raises)

\* Estimated-today: the daily value, else total / day of month.
EstimatedToday(daily_value, daily_source, value_used, current_date, last_total_at, now) ==
    IF ~IsNone(daily_value)
    THEN [estimated_today |-> daily_value, estimated_source |-> daily_source]
    ELSE IF ~IsNone(value_used)
    THEN LET average_date == IF ~IsNone(current_date) THEN Get(current_date)
                             ELSE IF ~IsNone(last_total_at) THEN Get(last_total_at)
                             ELSE now
             day == IF DayOf(average_date) > 1 THEN DayOf(average_date) ELSE 1
         IN  [estimated_today |-> Some(Round3(Get(value_used), day)),
              estimated_source |-> Some("monthly_average")]
    ELSE [estimated_today |-> None, estimated_source |-> None]

\* BaselineUpdate that moves the baseline only when there is none yet.
BaselineUpdate_OnlyFirst(fluid_store, value_status, current_total, current_date, last_total, last_total_at) ==
    IF value_status = "ok" /\ ~IsNone(current_total) /\ ~IsNone(current_date)
    THEN IF IsNone(last_total) \/ IsNone(last_total_at)
         THEN [last_total |-> current_total, last_total_at |-> current_date,
               fluid_store |-> [last_total |-> current_total,
                                last_total_at |-> IsoFormat(Get(current_date))]]
         ELSE [last_total |-> last_total, last_total_at |-> last_total_at,
               fluid_store |-> fluid_store]
    ELSE IF ~IsNone(last_total_at) /\ ~IsNone(last_total)
    THEN [last_total |-> last_total, last_total_at |-> last_total_at,
          fluid_store |-> [last_total |-> last_total,
                           last_total_at |-> IsoFormat(Get(last_total_at))]]
    ELSE [last_total |-> last_total, last_total_at |-> last_total_at,
          fluid_store |-> fluid_store]

\* BaselineUpdate that does not look at value_status.
BaselineUpdate_AnyStatus(fluid_store, value_status, current_total, current_date, last_total, last_total_at) ==
    IF ~IsNone(current_total) /\ ~IsNone(current_date)
    THEN IF IsNone(last_total) \/ IsNone(last_total_at) \/ Get(current_total) # Get(last_total)
         THEN [last_total |-> current_total, last_total_at |-> current_date,
               fluid_store |-> [last_total |-> current_total,
                                last_total_at |-> IsoFormat(Get(current_date))]]
         ELSE [last_total |-> last_total, last_total_at |-> last_total_at,
               fluid_store |-> fluid_store]
    ELSE IF ~IsNone(last_total_at) /\ ~IsNone(last_total)
    THEN [last_total |-> last_total, last_total_at |-> last_total_at,
          fluid_store |-> [last_total |-> last_total,
                           last_total_at |-> IsoFormat(Get(last_total_at))]]
    ELSE [last_total |-> last_total, last_total_at |-> last_total_at,
          fluid_store |-> fluid_store]

\* BaselineUpdate that moves the baseline only when one is held already.
BaselineUpdate_NeedsBaseline(fluid_store, value_status, current_total, current_date, last_total, last_total_at) ==
    IF value_status = "ok" /\ ~IsNone(current_total) /\ ~IsNone(current_date)
    THEN IF ~IsNone(last_total) /\ ~IsNone(last_total_at)
            /\ Get(current_total) # Get(last_total)
         THEN [last_total |-> current_total, last_total_at |-> current_date,
               fluid_store |-> [last_total |-> current_total,
                                last_total_at |-> IsoFormat(Get(current_date))]]
         ELSE [last_total |-> last_total, last_total_at |-> last_total_at,
               fluid_store |-> fluid_store]
    ELSE IF ~IsNone(last_total_at) /\ ~IsNone(last_total)
    THEN [last_total |-> last_total, last_total_at |-> last_total_at,
          fluid_store |-> [last_total |-> last_total,
                           last_total_at |-> IsoFormat(Get(last_total_at))]]
    ELSE [last_total |-> last_total, last_total_at |-> last_total_at,
          fluid_store |-> fluid_store]

\* BaselineUpdate that moves the baseline date and keeps the baseline total.
BaselineUpdate_KeepsTotal(fluid_store, value_status, current_total, current_date, last_total, last_total_at) ==
    IF value_status = "ok" /\ ~IsNone(current_total) /\ ~IsNone(current_date)
    THEN IF IsNone(last_total) \/ IsNone(last_total_at)
         THEN [last_total |-> current_total, last_total_at |-> current_date,
               fluid_store |-> [last_total |-> current_total,
                                last_total_at |-> IsoFormat(Get(current_date))]]
         ELSE IF Get(current_total) # Get(last_total)
         THEN [last_total |-> last_total, last_total_at |-> current_date,
               fluid_store |-> [last_total |-> last_total,
                                last_total_at |-> IsoFormat(Get(current_date))]]
         ELSE [last_total |-> last_total, last_total_at |-> last_total_at,
               fluid_store |-> fluid_store]
    ELSE IF ~IsNone(last_total_at) /\ ~IsNone(last_total)
    THEN [last_total |-> last_total, last_total_at |-> last_total_at,
          fluid_store |-> [last_total |-> last_total,
                           last_total_at |-> IsoFormat(Get(last_total_at))]]
    ELSE [last_total |-> last_total, last_total_at |-> last_total_at,
          fluid_store |-> fluid_store]

\* Baseline update: the baseline after the poll (optional total, optional
\* date) and the fluid's store entry.
BaselineUpdate(fluid_store, value_status, current_total, current_date, last_total, last_total_at) ==
    IF value_status = "ok" /\ ~IsNone(current_total) /\ ~IsNone(current_date)
    THEN IF IsNone(last_total) \/ IsNone(last_total_at) \/ Get(current_total) # Get(last_total)
         THEN [last_total |-> current_total, last_total_at |-> current_date,
               fluid_store |-> [last_total |-> current_total,
                                last_total_at |-> IsoFormat(Get(current_date))]]
         ELSE [last_total |-> last_total, last_total_at |-> last_total_at,
               fluid_store |-> fluid_store]
    ELSE IF ~IsNone(last_total_at) /\ ~IsNone(last_total)
    THEN [last_total |-> last_total, last_total_at |-> last_total_at,
          fluid_store |-> [last_total |-> last_total,
                           last_total_at |-> IsoFormat(Get(last_total_at))]]
    ELSE [last_total |-> last_total, last_total_at |-> last_total_at,
          fluid_store |-> fluid_store]

OptIso(d) == IF IsNone(d) THEN None ELSE IsoFormat(Get(d))

\* ReconcileFluid whose iteration ends where a statistics call raises.
ReconcileFluid_RaiseSkipsBaseline(key, raw_entry, now, fluid_store, series, sink_raises) ==
    LET unit          == UnitOf(key)
        current_total == raw_entry.latest_value
        leak_estimate == IF IsNone(raw_entry.leak_estimate) THEN Some("unknown")
                         ELSE raw_entry.leak_estimate
        last_total    == fluid_store.last_total
        Built(api_date, current_date, last_total_at, fb, dd, est, bu) ==
            [fluid_store |-> IF dd.sink_called /\ sink_raises THEN fluid_store
                            ELSE bu.fluid_store,
             series      |-> AddExternalStatistics(series, dd.stats),
             stats       |-> dd.stats,
             sink_error  |-> dd.sink_called /\ sink_raises,
             sink_called |-> dd.sink_called,
             data |-> [total |-> fb.value_used,
                       unit |-> unit,
                       leak_estimate |-> leak_estimate,
                       daily |-> dd.daily_value,
                       daily_status |-> dd.daily_status,
                       daily_source |-> dd.daily_source,
                       estimated_today |-> est.estimated_today,
                       estimated_today_source |-> est.estimated_source,
                       latest_date |-> OptIso(current_date),
                       api_latest_date |-> OptIso(api_date),
                       value_status |-> fb.value_status,
                       last_total |-> bu.last_total,
                       last_total_at |-> OptIso(bu.last_total_at)]]
        Derived(api_date, current_date, last_total_at, fb, dd) ==
            Built(api_date, current_date, last_total_at, fb, dd,
                  EstimatedToday(dd.daily_value, dd.daily_source, fb.value_used,
                                 current_date, last_total_at, now),
                  BaselineUpdate(fluid_store, fb.value_status, current_total,
                                 current_date, last_total, last_total_at))
        Classified(api_date, current_date, last_total_at, fb) ==
            Derived(api_date, current_date, last_total_at, fb,
                    DailyDerivation(series, key, unit, fb.value_status, fb.value_used,
                                    current_total, current_date, last_total,
                                    last_total_at, sink_raises))
        Tentative(api_date, current_date, last_total_at, tentative) ==
            Classified(api_date, current_date, last_total_at,
                       Fallback(StaleDowngrade(tentative, current_total, current_date,
                                               last_total, last_total_at),
                                current_total, last_total))
        Dated(api_date, current_date, last_total_at) ==
            Tentative(api_date, current_date, last_total_at,
                      TentativeStatus(current_total, current_date, last_total, last_total_at))
        Parsed(api_date, last_total_at) ==
            Dated(api_date, EffectiveDate(api_date, now), last_total_at)
    IN  Parsed(ParseDate(raw_entry.latest_date), ParseDate(fluid_store.last_total_at))

\* One iteration of the poll's loop over FLUIDS: the fluid's result, its
\* store entry, its series in the sink and the points appended to it.  The
\* loop body's assignments follow one another as the stages below, each
\* handing on what the code has assigned so far.
ReconcileFluid(key, raw_entry, now, fluid_store, series, sink_raises) ==
    LET unit          == UnitOf(key)
        current_total == raw_entry.latest_value
        leak_estimate == IF IsNone(raw_entry.leak_estimate) THEN Some("unknown")
                         ELSE raw_entry.leak_estimate
        last_total    == fluid_store.last_total
        Built(api_date, current_date, last_total_at, fb, dd, est, bu) ==
            [fluid_store |-> bu.fluid_store,
             series      |-> AddExternalStatistics(series, dd.stats),
             stats       |-> dd.stats,
             sink_error  |-> dd.sink_called /\ sink_raises,
             sink_called |-> dd.sink_called,
             data |-> [total |-> fb.value_used,
                       unit |-> unit,
                       leak_estimate |-> leak_estimate,
                       daily |-> dd.daily_value,
                       daily_status |-> dd.daily_status,
                       daily_source |-> dd.daily_source,
                       estimated_today |-> est.estimated_today,
                       estimated_today_source |-> est.estimated_source,
                       latest_date |-> OptIso(current_date),
                       api_latest_date |-> OptIso(api_date),
                       value_status |-> fb.value_status,
                       last_total |-> bu.last_total,
                       last_total_at |-> OptIso(bu.last_total_at)]]
        Derived(api_date, current_date, last_total_at, fb, dd) ==
            Built(api_date, current_date, last_total_at, fb, dd,
                  EstimatedToday(dd.daily_value, dd.daily_source, fb.value_used,
                                 current_date, last_total_at, now),
                  BaselineUpdate(fluid_store, fb.value_status, current_total,
                                 current_date, last_total, last_total_at))
        Classified(api_date, current_date, last_total_at, fb) ==
            Derived(api_date, current_date, last_total_at, fb,
                    DailyDerivation(series, key, unit, fb.value_status, fb.value_used,
                                    current_total, current_date, last_total,
                                    last_total_at, sink_raises))
        Tentative(api_date, current_date, last_total_at, tentative) ==
            Classified(api_date, current_date, last_total_at,
                       Fallback(StaleDowngrade(tentative, current_total, current_date,
                                               last_total, last_total_at),
                                current_total, last_total))
        Dated(api_date, current_date, last_total_at) ==
            Tentative(api_date, current_date, last_total_at,
                      TentativeStatus(current_total, current_date, last_total, last_total_at))
        Parsed(api_date, last_total_at) ==
            Dated(api_date, EffectiveDate(api_date, now), last_total_at)
    IN  Parsed(ParseDate(raw_entry.latest_date), ParseDate(fluid_store.last_total_at))


\* ------------------------------------------------------------ the client
\* The client's tokens are optional strings; bool(x) of one: neither None
\* nor "".
Truthy(o) == ~IsNone(o) /\ Get(o) # ""

\* The tokens a token response may carry (None: the key is absent).
AccessValues == {None, Some("access")}
RefreshValues == {None, Some("refresh")}

\* What the token endpoint may answer: a status other than 200, or 200 with
\* a JSON body.
TokenResponses ==
    {[status |-> 400, access_token |-> None, refresh_token |-> None]} \cup
    {[status |-> 200, access_token |-> a, refresh_token |-> r] :
        a \in AccessValues, r \in RefreshValues}

\* The statuses the API may answer: success, unauthorized, another error.
ApiStatuses == {200, 401, 500}

\* One network exchange: where the request went, the tokens the client held
\* when it was sent (an API request carries held.access_token as its bearer
\* token), the status of the response, the requests sent and, for the
\* interactive flow, the text of the authorize page.
Exchange(to, c, status) ==
    [to |-> to, held |-> c, status |-> status, sent |-> <<to>>, page |-> ""]

\* OceaAuthError(f"HTTP {resp.status_code} for {url}")
HttpError(status) ==
    [type |-> "OceaAuthError", text |-> "HTTP {status} for {url}", status |-> status]
\* The OceaAuthError of a refused token exchange in _auth_pkce.
PkceError ==
    [type |-> "OceaAuthError", text |-> "Token exchange failed.", status |-> 0]
NoOccupations ==
    [type |-> "OceaAuthError", text |-> "No occupations found for this account.", status |-> 0]
NoLocalId ==
    [type |-> "OceaAuthError", text |-> "Unable to determine local ID.", status |-> 0]
\* resp.json() of a body that is not JSON.
JsonError ==
    [type |-> "JSONDecodeError", text |-> "Expecting value", status |-> 0]

\* _try_refresh that takes the refresh token of the response as _try_ropc
\* does, absent or not.
_try_refresh_TakesResponseToken(c) ==
    IF ~Truthy(c.refresh_token)
    THEN {[c |-> c, ok |-> FALSE, calls |-> <<>>]}
    ELSE {[c |-> IF resp.status # 200 THEN c
                 ELSE [access_token |-> resp.access_token,
                       refresh_token |-> resp.refresh_token],
           ok |-> resp.status = 200 /\ Truthy(resp.access_token),
           calls |-> <<Exchange("refresh", c, resp.status)>>] :
          resp \in TokenResponses}

\* _try_refresh: every outcome the token endpoint allows, as the tokens
\* held afterwards, the value returned and the exchanges made.
_try_refresh(c) ==
    IF ~Truthy(c.refresh_token)
    THEN {[c |-> c, ok |-> FALSE, calls |-> <<>>]}
    ELSE {[c |-> IF resp.status # 200 THEN c
                 ELSE [access_token |-> resp.access_token,
                       refresh_token |-> IF IsNone(resp.refresh_token)
                                         THEN c.refresh_token
                                         ELSE resp.refresh_token],
           ok |-> resp.status = 200 /\ Truthy(resp.access_token),
           calls |-> <<Exchange("refresh", c, resp.status)>>] :
          resp \in TokenResponses}

\* _try_ropc
_try_ropc(c) ==
    {[c |-> IF resp.status # 200 THEN c
            ELSE [access_token |-> resp.access_token,
                  refresh_token |-> resp.refresh_token],
      ok |-> resp.status = 200 /\ Truthy(resp.access_token),
      calls |-> <<Exchange("ropc", c, resp.status)>>] :
     resp \in TokenResponses}

\* What the authorize endpoint may answer: an error status, or a page whose
\* text has no "var SETTINGS = {...};" blob, a blob that is not JSON, a blob
\* without transId, tenant or policy, or a usable blob.
AuthorizePages == {"no_settings", "settings_not_json", "settings_incomplete", "settings"}
AuthorizeResponses ==
    {[status |-> 500, text |-> "no_settings"]} \cup
    {[status |-> 200, text |-> html] : html \in AuthorizePages}

\* The OceaAuthErrors of the interactive flow before the token exchange.
AuthStartError ==
    [type |-> "OceaAuthError", text |-> "Auth start failed: status={status}.", status |-> 0]
SettingsError ==
    [type |-> "OceaAuthError", text |-> "Unable to parse B2C settings.", status |-> 0]
MissingFieldsError ==
    [type |-> "OceaAuthError", text |-> "Missing B2C settings fields.", status |-> 0]
SelfAssertedError ==
    [type |-> "OceaAuthError", text |-> "B2C SelfAsserted failed ({status}).", status |-> 0]

\* _parse_settings: the blob is searched for, then handed to json.loads,
\* whose JSONDecodeError nothing catches.
_parse_settings(html) ==
    IF html = "no_settings"
    THEN [error |-> Some(SettingsError), complete |-> FALSE]
    ELSE IF html = "settings_not_json"
    THEN [error |-> Some(JsonError), complete |-> FALSE]
    ELSE [error |-> None, complete |-> html = "settings"]

\* The interactive flow as one exchange: the tokens held when it started,
\* the status of its token response (0 when it ended before the token
\* request), the requests it sent, in order, and the text of the authorize
\* page.  "SelfAsserted" is the request that carries the username and the
\* password.
PkceExchange(c, status, sent, html) ==
    [to |-> "pkce", held |-> c, status |-> status, sent |-> sent, page |-> html]
PkceRaised(c, err, status, sent, html) ==
    [c |-> c, error |-> Some(err), calls |-> <<PkceExchange(c, status, sent, html)>>]
UpToAuthorize == <<"authorize">>
UpToSelfAsserted == <<"authorize", "SelfAsserted">>
UpToToken == <<"authorize", "SelfAsserted", "confirmed", "token">>

\* _auth_pkce from its SelfAsserted request on: the login is refused
\* (lines 233-242, 285-286) or the token endpoint answers.
_auth_pkce_Login(c, html) ==
    {PkceRaised(c, SelfAssertedError, 0, UpToSelfAsserted, html)} \cup
    {IF resp.status # 200
     THEN PkceRaised(c, PkceError, resp.status, UpToToken, html)
     ELSE [c |-> [access_token |-> resp.access_token,
                  refresh_token |-> resp.refresh_token],
           error |-> None,
           calls |-> <<PkceExchange(c, 200, UpToToken, html)>>] :
     resp \in TokenResponses}

\* _auth_pkce: every outcome the servers allow, as the tokens held
\* afterwards, the exception raised, if any, and the exchange made.
_auth_pkce(c) ==
    UNION {IF auth_resp.status >= 400
           THEN {PkceRaised(c, AuthStartError, 0, UpToAuthorize, auth_resp.text)}
           ELSE IF ~IsNone(_parse_settings(auth_resp.text).error)
           THEN {PkceRaised(c, Get(_parse_settings(auth_resp.text).error), 0,
                            UpToAuthorize, auth_resp.text)}
           ELSE IF ~_parse_settings(auth_resp.text).complete
           THEN {PkceRaised(c, MissingFieldsError, 0, UpToAuthorize, auth_resp.text)}
           ELSE _auth_pkce_Login(c, auth_resp.text) :
           auth_resp \in AuthorizeResponses}

\* What _handle_unauthorized makes of the outcome p of _auth_pkce after the
\* exchanges of the failed refresh: "except OceaAuthError" turns that
\* exception into False, any other exception goes on to the caller.
AfterPkce(calls, p) ==
    [c |-> p.c,
     ok |-> IsNone(p.error) /\ Truthy(p.c.access_token),
     calls |-> calls \o p.calls,
     error |-> IF ~IsNone(p.error) /\ Get(p.error).type # "OceaAuthError"
               THEN p.error ELSE None]
Refreshed(r) == [c |-> r.c, ok |-> TRUE, calls |-> r.calls, error |-> None]

\* _handle_unauthorized without the lines 314-315 that drop the tokens.
_handle_unauthorized_KeepsTokens(c) ==
    UNION {IF r.ok THEN {Refreshed(r)}
           ELSE {AfterPkce(r.calls, p) : p \in _auth_pkce(r.c)} :
           r \in _try_refresh(c)}

\* _handle_unauthorized: the tokens held afterwards, the value returned,
\* the exchanges made and the exception that went through, if any.
_handle_unauthorized(c) ==
    UNION {IF r.ok THEN {Refreshed(r)}
           ELSE {AfterPkce(r.calls, p) :
                 p \in _auth_pkce([access_token |-> None, refresh_token |-> None])} :
           r \in _try_refresh(c)}

\* _ensure_token that goes from a failed refresh straight to the
\* interactive flow.
_ensure_token_SkipsRopc(c) ==
    IF Truthy(c.access_token)
    THEN {[c |-> c, error |-> None, calls |-> <<>>]}
    ELSE UNION {IF r.ok THEN {[c |-> r.c, error |-> None, calls |-> r.calls]}
                ELSE {[c |-> p.c, error |-> p.error, calls |-> r.calls \o p.calls] :
                      p \in _auth_pkce(r.c)} :
                r \in _try_refresh(c)}

\* _ensure_token
_ensure_token(c) ==
    IF Truthy(c.access_token)
    THEN {[c |-> c, error |-> None, calls |-> <<>>]}
    ELSE UNION {IF r.ok THEN {[c |-> r.c, error |-> None, calls |-> r.calls]}
                ELSE UNION {IF o.ok
                            THEN {[c |-> o.c, error |-> None,
                                   calls |-> r.calls \o o.calls]}
                            ELSE {[c |-> p.c, error |-> p.error,
                                   calls |-> r.calls \o o.calls \o p.calls] :
                                  p \in _auth_pkce(o.c)} :
                            o \in _try_ropc(r.c)} :
                r \in _try_refresh(c)}

\* The end of _get and _post: a status of 400 or more raises.
Responded(c, calls, status) ==
    [c |-> c, calls |-> calls,
     error |-> IF status >= 400 THEN Some(HttpError(status)) ELSE None]

\* _get: every outcome the servers allow, as the tokens held afterwards, the
\* exchanges made and the exception raised, if any.
_get(c, path) ==
    UNION {IF ~IsNone(e.error)
           THEN {[c |-> e.c, calls |-> e.calls, error |-> e.error]}
           ELSE UNION {IF first = 401
                       THEN UNION {IF ~IsNone(h.error)
                                   THEN {[c |-> h.c,
                                          calls |-> e.calls \o <<Exchange(path, e.c, first)>>
                                                        \o h.calls,
                                          error |-> h.error]}
                                   ELSE IF h.ok
                                   THEN {Responded(h.c,
                                                   e.calls \o <<Exchange(path, e.c, first)>>
                                                       \o h.calls
                                                       \o <<Exchange(path, h.c, second)>>,
                                                   second) :
                                         second \in ApiStatuses}
                                   ELSE {Responded(h.c,
                                                   e.calls \o <<Exchange(path, e.c, first)>>
                                                       \o h.calls,
                                                   first)} :
                                   h \in _handle_unauthorized(e.c)}
                       ELSE {Responded(e.c, e.calls \o <<Exchange(path, e.c, first)>>,
                                       first)} :
                       first \in ApiStatuses} :
           e \in _ensure_token(c)}

\* _post: as _get, with another HTTP method.
_post(c, path) == _get(c, path)


\* ------------------------------------------------------------ the state
VARIABLES
    store,             \* _store_data["fluids"]: per fluid last_total, last_total_at
    disk,              \* what the Store holds on disk (async_save)
    sink,              \* the recorder's external statistics, one series per fluid
    auth_retry_count,  \* _auth_retry_count
    since_ok,          \* history of the failed polls since the last fetch that returned
    today,             \* the local date dt_util.now() reports
    data,              \* the OceaData a poll returns, until the scheduler took it
    failed,            \* the UpdateFailed a poll raises, until the scheduler took it
    appended,          \* the points the returning poll handed to the sink
    poll,              \* what the returning poll read before it acted
    outage,            \* whether fetch may raise in this run
    access_token,      \* OceaClient._access_token
    refresh_token,     \* OceaClient._refresh_token
    fetch,             \* how far the fetch in flight has got
    call,              \* the latest call of the client under observation
    entities,          \* the sensor entities handed to async_add_entities
    probe              \* the latest application of a function observed on its own

\* The client's part of the state.
clientVars == <<access_token, refresh_token, fetch, call>>

\* The coordinator's part of the state.
coordVars == <<store, disk, sink, auth_retry_count, since_ok, today, data, failed,
               appended, poll, outage>>

vars == <<store, disk, sink, auth_retry_count, since_ok, today, data, failed, appended, poll,
          outage, access_token, refresh_token, fetch, call, entities, probe>>

\* AUTH_RETRY_MAX
AUTH_RETRY_MAX == 2

EmptyFluidStore == [last_total |-> None, last_total_at |-> None]
NoPoints == [k \in FluidKeys |-> <<>>]

\* No fetch is in flight: fetch has not been called, or its outcome was taken.
NoFetch == [pc |-> "idle", results |-> <<>>, error |-> None, queries |-> 0]

\* No poll has failed since the last fetch that returned: none carried the
\* retry_after hint (hinted, counted up to AUTH_RETRY_MAX + 1) and the counter
\* has not reached AUTH_RETRY_MAX (exhausted).
NoFailures == [hinted |-> 0, exhausted |-> FALSE]

\* No call of the client has been observed.
NoCall ==
    [op |-> "none", before |-> [access_token |-> None, refresh_token |-> None],
     calls |-> <<>>, error |-> None]

\* No function has been observed on its own.
NoProbe == [fn |-> "none"]

\* No poll is in flight and none has a result pending.
Idle == IsNone(data) /\ IsNone(failed)

\* The coordinator and its client right after construction.
Constructed ==
    /\ store = [k \in FluidKeys |-> EmptyFluidStore]
    /\ disk = None
    /\ sink = [k \in FluidKeys |-> None]
    /\ auth_retry_count = 0
    /\ since_ok = NoFailures
    /\ today = FirstDay
    /\ data = None
    /\ failed = None
    /\ appended = NoPoints
    /\ poll = None
    /\ access_token = None
    /\ refresh_token = None
    /\ fetch = NoFetch
    /\ call = NoCall
    /\ entities = {}
    /\ probe = NoProbe

Init == Constructed /\ outage \in BOOLEAN

\* The calendar advances between polls.
Tick ==
    /\ Idle
    /\ \E d \in Days : d > today /\ today' = d
    /\ UNCHANGED <<store, disk, sink, auth_retry_count, since_ok, data, failed, appended,
                   poll, outage>>
    /\ UNCHANGED clientVars
    /\ UNCHANGED <<entities, probe>>

\* Store.async_save(self._store_data)
AsyncSave(on_disk, store_data) == Some(store_data)

\* _async_update_data whose loop reads one store entry, the first fluid's,
\* as the prior state of every fluid.
UpdateData_OneEntryForAll(raws) ==
    \E raw \in raws :
        \E ok \in {[k \in FluidKeys |->
                    ReconcileFluid(k, raw[k], today, store["eau_froide"], sink[k], FALSE)]} :
        \E raising \in SUBSET {k \in RaisingFluids : ok[k].sink_called} :
        \E r \in {[k \in FluidKeys |->
                    IF k \in raising
                    THEN ReconcileFluid(k, raw[k], today, store["eau_froide"], sink[k], TRUE)
                    ELSE ok[k]]} :
            /\ auth_retry_count' = 0
            /\ since_ok' = NoFailures
            /\ store' = [k \in FluidKeys |-> r[k].fluid_store]
            /\ disk' = AsyncSave(disk, store')
            /\ sink' = [k \in FluidKeys |-> r[k].series]
            /\ data' = Some([k \in FluidKeys |-> r[k].data])
            /\ appended' = [k \in FluidKeys |-> r[k].stats]
            /\ poll' = Some([now |-> today,
                             latest_value |-> [k \in FluidKeys |-> raw[k].latest_value],
                             latest_date |-> [k \in FluidKeys |-> raw[k].latest_date],
                             before |-> store,
                             last_stat |-> [k \in FluidKeys |-> GetLastStat(sink[k])],
                             sink_error |-> [k \in FluidKeys |-> r[k].sink_error]])
            /\ UNCHANGED <<today, failed, outage>>

\* _async_update_data once fetch returned one of `raws`: every fluid is
\* reconciled in turn, then the store is saved and the OceaData returned.  Any
\* of the statistics calls the poll makes may raise (`raising`).
UpdateData(raws) ==
    \E raw \in raws :
        \E ok \in {[k \in FluidKeys |->
                    ReconcileFluid(k, raw[k], today, store[k], sink[k], FALSE)]} :
        \E raising \in SUBSET {k \in RaisingFluids : ok[k].sink_called} :
        \E r \in {[k \in FluidKeys |->
                    IF k \in raising
                    THEN ReconcileFluid(k, raw[k], today, store[k], sink[k], TRUE)
                    ELSE ok[k]]} :
            /\ auth_retry_count' = 0
            /\ since_ok' = NoFailures
            /\ store' = [k \in FluidKeys |-> r[k].fluid_store]
            /\ disk' = AsyncSave(disk, store')
            /\ sink' = [k \in FluidKeys |-> r[k].series]
            /\ data' = Some([k \in FluidKeys |-> r[k].data])
            /\ appended' = [k \in FluidKeys |-> r[k].stats]
            /\ poll' = Some([now |-> today,
                             latest_value |-> [k \in FluidKeys |-> raw[k].latest_value],
                             latest_date |-> [k \in FluidKeys |-> raw[k].latest_date],
                             before |-> store,
                             last_stat |-> [k \in FluidKeys |-> GetLastStat(sink[k])],
                             sink_error |-> [k \in FluidKeys |-> r[k].sink_error]])
            /\ UNCHANGED <<today, failed, outage>>

\* A poll whose fetch returns.
PollOk ==
    /\ Idle
    /\ UpdateData(RawChoices(today, outage))
    /\ UNCHANGED clientVars
    /\ UNCHANGED <<entities, probe>>

\* AuthRetry that gives every authentication error the quick retry.
AuthRetry_AnyAuthError(count, kind) ==
    IF kind \in {"auth_401", "auth_other"}
    THEN IF count < AUTH_RETRY_MAX
         THEN [count |-> count + 1, retry_after |-> TRUE]
         ELSE [count |-> count, retry_after |-> FALSE]
    ELSE [count |-> count, retry_after |-> FALSE]

\* The retry counter and the retry_after hint after fetch raised `kind`.
AuthRetry(count, kind) ==
    IF kind = "auth_401"
    THEN IF count < AUTH_RETRY_MAX
         THEN [count |-> count + 1, retry_after |-> TRUE]
         ELSE [count |-> count, retry_after |-> FALSE]
    ELSE IF kind = "auth_other"
    THEN [count |-> 0, retry_after |-> FALSE]
    ELSE [count |-> count, retry_after |-> FALSE]

\* The exceptions fetch may raise, as the coordinator tells them apart: an
\* OceaAuthError whose message holds "HTTP 401", another OceaAuthError, or
\* any other exception.
FailureKinds == {"auth_401", "auth_other", "error"}

\* UpdateFailed that saves the store before it raises.
UpdateFailed_SavesStore(kind) ==
    LET a == AuthRetry(auth_retry_count, kind)
    IN  /\ auth_retry_count' = a.count
        /\ since_ok' = [hinted |-> IF a.retry_after /\ since_ok.hinted <= AUTH_RETRY_MAX
                                   THEN since_ok.hinted + 1 ELSE since_ok.hinted,
                        exhausted |-> since_ok.exhausted \/ a.count >= AUTH_RETRY_MAX]
        /\ failed' = Some([kind |-> kind, retry_after |-> a.retry_after,
                           count_before |-> auth_retry_count, before |-> store,
                           exhausted_before |-> since_ok.exhausted])
        /\ disk' = AsyncSave(disk, store)
        /\ UNCHANGED <<store, sink, today, data, appended, poll, outage>>

\* _async_update_data once fetch raised an exception of `kind`.
UpdateFailed(kind) ==
    LET a == AuthRetry(auth_retry_count, kind)
    IN  /\ auth_retry_count' = a.count
        /\ since_ok' = [hinted |-> IF a.retry_after /\ since_ok.hinted <= AUTH_RETRY_MAX
                                   THEN since_ok.hinted + 1 ELSE since_ok.hinted,
                        exhausted |-> since_ok.exhausted \/ a.count >= AUTH_RETRY_MAX]
        /\ failed' = Some([kind |-> kind, retry_after |-> a.retry_after,
                           count_before |-> auth_retry_count, before |-> store,
                           exhausted_before |-> since_ok.exhausted])
        /\ UNCHANGED <<store, disk, sink, today, data, appended, poll, outage>>

\* A poll whose fetch raises.
PollFailed ==
    /\ Idle
    /\ outage
    /\ \E kind \in FailureKinds : UpdateFailed(kind)
    /\ UNCHANGED clientVars
    /\ UNCHANGED <<entities, probe>>

\* The scheduler takes the poll's outcome (the entities read the returned
\* data); the coordinator is idle until the next poll.
TakeOutcome ==
    /\ ~Idle
    /\ data' = None
    /\ failed' = None
    /\ appended' = NoPoints
    /\ poll' = None
    /\ UNCHANGED <<store, disk, sink, auth_retry_count, since_ok, today, outage>>

Publish == TakeOutcome /\ UNCHANGED clientVars /\ UNCHANGED <<entities, probe>>

Next == Tick \/ PollOk \/ PollFailed \/ Publish

Spec == Init /\ [][Next]_vars

\* ------------------------------------------------- the client's calls
\* The tokens the client holds.
Tokens == [access_token |-> access_token, refresh_token |-> refresh_token]

\* A call of _ensure_token on its own.
EnsureToken ==
    /\ call = NoCall
    /\ \E e \in _ensure_token(Tokens) :
          /\ access_token' = e.c.access_token
          /\ refresh_token' = e.c.refresh_token
          /\ call' = [op |-> "_ensure_token", before |-> Tokens, calls |-> e.calls,
                      error |-> e.error]
    /\ UNCHANGED fetch
    /\ UNCHANGED coordVars
    /\ UNCHANGED <<entities, probe>>

\* A call of _get.
AuthorizedGet ==
    /\ call = NoCall
    /\ \E o \in _get(Tokens, "/resident") :
          /\ access_token' = o.c.access_token
          /\ refresh_token' = o.c.refresh_token
          /\ call' = [op |-> "_get", before |-> Tokens, calls |-> o.calls,
                      error |-> o.error]
    /\ UNCHANGED fetch
    /\ UNCHANGED coordVars
    /\ UNCHANGED <<entities, probe>>

\* A call of _post.
AuthorizedPost ==
    /\ call = NoCall
    /\ \E o \in _post(Tokens, "/conso") :
          /\ access_token' = o.c.access_token
          /\ refresh_token' = o.c.refresh_token
          /\ call' = [op |-> "_post", before |-> Tokens, calls |-> o.calls,
                      error |-> o.error]
    /\ UNCHANGED fetch
    /\ UNCHANGED coordVars
    /\ UNCHANGED <<entities, probe>>

\* The caller takes the call's outcome; the client keeps its tokens.
CallReturns ==
    /\ call # NoCall
    /\ call' = NoCall
    /\ UNCHANGED <<access_token, refresh_token, fetch>>
    /\ UNCHANGED coordVars
    /\ UNCHANGED <<entities, probe>>

AuthInit == Constructed /\ outage = TRUE

AuthNext == EnsureToken \/ AuthorizedGet \/ AuthorizedPost \/ CallReturns

\* The client alone, called again and again against servers that answer as
\* they please.
AuthSpec == AuthInit /\ [][AuthNext]_vars

\* ------------------------------------------------ a poll, fetch by fetch
\* What the profile lookup may answer with status 200: a body that is not
\* JSON, a record without occupations, one whose first occupation has no
\* logementId, or a usable record.
ResidentBodies == {"not_json", "no_occupations", "no_local_id", "resident"}

\* The exception a body of the profile lookup makes fetch raise, if any.
ResidentError(body) ==
    IF body = "not_json" THEN Some(JsonError)
    ELSE IF body = "no_occupations" THEN Some(NoOccupations)
    ELSE IF body = "no_local_id" THEN Some(NoLocalId)
    ELSE None

\* The requests a call sent to a path of the API.
Sent(exchanges, path) ==
    Cardinality({i \in 1..Len(exchanges) : exchanges[i].to = path})

\* What a call leaves to its caller: the tokens, the exception and the
\* number of requests it sent to the path.
Outcomes(results, path) ==
    {[c |-> o.c, error |-> o.error, sent |-> Sent(o.calls, path)] : o \in results}

\* "HTTP 401" in str(err)
Holds401(err) == err.text = HttpError(401).text /\ err.status = 401

\* FailureKind that takes every OceaAuthError for an HTTP 401.
FailureKind_EveryAuthErrorIs401(err) ==
    IF err.type = "OceaAuthError" THEN "auth_401" ELSE "error"

\* How _async_update_data tells apart what fetch raised.
FailureKind(err) ==
    IF err.type = "OceaAuthError"
    THEN IF Holds401(err) THEN "auth_401" ELSE "auth_other"
    ELSE "error"

\* fetch, up to the end of the profile lookup.
FetchResident ==
    /\ Idle
    /\ fetch.pc = "idle"
    /\ \E o \in Outcomes(_get(Tokens, "/resident"), "/resident") :
          /\ access_token' = o.c.access_token
          /\ refresh_token' = o.c.refresh_token
          /\ IF ~IsNone(o.error)
             THEN fetch' = [pc |-> "raised", results |-> <<>>, error |-> o.error,
                            queries |-> 0]
             ELSE \E body \in ResidentBodies :
                    fetch' = [pc |-> IF IsNone(ResidentError(body)) THEN "conso"
                                     ELSE "raised",
                              results |-> <<>>, error |-> ResidentError(body),
                              queries |-> 0]
    /\ UNCHANGED call
    /\ UNCHANGED coordVars
    /\ UNCHANGED <<entities, probe>>

\* fetch, one more consumption query: the next fluid of FLUIDS.
FetchConso ==
    /\ fetch.pc = "conso"
    /\ \E o \in Outcomes(_post(Tokens, "/conso"), "/conso") :
          /\ access_token' = o.c.access_token
          /\ refresh_token' = o.c.refresh_token
          /\ IF ~IsNone(o.error)
             THEN fetch' = [pc |-> "raised", results |-> fetch.results,
                            error |-> o.error, queries |-> fetch.queries + o.sent]
             ELSE \E snapshot \in Snapshots(FLUIDS[Len(fetch.results) + 1], today, TRUE) :
                    fetch' = [pc |-> IF Len(fetch.results) + 1 = Len(FLUIDS)
                                     THEN "returned" ELSE "conso",
                              results |-> Append(fetch.results, snapshot),
                              error |-> None, queries |-> fetch.queries + o.sent]
    /\ UNCHANGED call
    /\ UNCHANGED coordVars
    /\ UNCHANGED <<entities, probe>>

\* The position of a fluid in FLUIDS.
IndexOf(key) == CHOOSE i \in 1..Len(FLUIDS) : FLUIDS[i] = key

\* The poll goes on with what fetch returned.
FetchReturns ==
    /\ fetch.pc = "returned"
    /\ UpdateData({[k \in FluidKeys |-> fetch.results[IndexOf(k)]]})
    /\ fetch' = [fetch EXCEPT !.pc = "done"]
    /\ UNCHANGED <<access_token, refresh_token, call>>
    /\ UNCHANGED <<entities, probe>>

\* The poll ends with what fetch raised.
FetchRaises ==
    /\ fetch.pc = "raised"
    /\ UpdateFailed(FailureKind(Get(fetch.error)))
    /\ fetch' = [fetch EXCEPT !.pc = "done"]
    /\ UNCHANGED <<access_token, refresh_token, call>>
    /\ UNCHANGED <<entities, probe>>

\* The scheduler takes the outcome of the poll, and with it of its fetch.
PollEnds ==
    /\ TakeOutcome
    /\ fetch' = NoFetch
    /\ UNCHANGED <<access_token, refresh_token, call>>
    /\ UNCHANGED <<entities, probe>>

ClientInit == Constructed /\ outage = TRUE

ClientNext == FetchResident \/ FetchConso \/ FetchReturns \/ FetchRaises \/ PollEnds

\* The polls of one day, each with its fetch request by request.
ClientSpec == ClientInit /\ [][ClientNext]_vars

\* ------------------------------------------------- the sensor platform
\* SENSORS: the keys of the entity descriptions, in order.
SENSORS == <<"total", "leak_estimate", "daily">>

\* sensor.async_setup_entry: the entities built, each by its fluid and its
\* description (the pair makes its unique id).
async_setup_entry ==
    {[fluid_key |-> FLUIDS[i], key |-> SENSORS[j]] :
        <<i, j>> \in {<<i, j>> \in (1..Len(FLUIDS)) \X (1..Len(SENSORS)) :
                        ~(SENSORS[j] = "leak_estimate" /\ UnitOf(FLUIDS[i]) # "m3")}}

\* __init__.async_setup_entry forwards the entry to the sensor platform once
\* the first refresh has returned.
SetupEntry ==
    /\ entities = {}
    /\ ~IsNone(data)
    /\ entities' = async_setup_entry
    /\ UNCHANGED probe
    /\ UNCHANGED coordVars
    /\ UNCHANGED clientVars

PlatformInit == Constructed /\ outage = TRUE

PlatformNext == Tick \/ PollOk \/ PollFailed \/ Publish \/ SetupEntry

PlatformSpec == PlatformInit /\ [][PlatformNext]_vars

\* ------------------------------------------------- the effective date
\* The days an effective date is resolved for: ProbeSpan days from FirstDay
\* on, which hold the 1st of two months.
ProbeSpan == 31
ProbeDays == FirstDay .. (FirstDay + ProbeSpan)

\* Lines 164-169 of _async_update_data on their own, for any reported date
\* and any day.
ResolveDate ==
    /\ \E now \in ProbeDays :
          \E api_date \in {None} \cup {Some(d) : d \in ProbeDays} :
              probe' = [fn |-> "EffectiveDate", api_date |-> api_date, now |-> now,
                        current_date |-> EffectiveDate(api_date, now)]
    /\ UNCHANGED entities
    /\ UNCHANGED coordVars
    /\ UNCHANGED clientVars

DateInit == Constructed /\ outage = TRUE

DateNext == ResolveDate

DateSpec == DateInit /\ [][DateNext]_vars

\* ------------------------------------------------- the login steps
\* The tokens a client may hold when a login step starts: none, an empty
\* string, or tokens of an earlier login, which differ from those the token
\* endpoint hands out now.
HeldTokens ==
    [access_token : {None, Some(""), Some("held_access"), Some("access")},
     refresh_token : {None, Some("held_refresh")}]

\* _try_refresh on its own, for any tokens held.
TryRefresh ==
    /\ \E c \in HeldTokens :
          \E r \in _try_refresh(c) :
              probe' = [fn |-> "_try_refresh", before |-> c, after |-> r.c,
                        ok |-> r.ok, calls |-> r.calls, error |-> None]
    /\ UNCHANGED entities
    /\ UNCHANGED coordVars
    /\ UNCHANGED clientVars

\* _try_ropc on its own.
TryRopc ==
    /\ \E c \in HeldTokens :
          \E r \in _try_ropc(c) :
              probe' = [fn |-> "_try_ropc", before |-> c, after |-> r.c,
                        ok |-> r.ok, calls |-> r.calls, error |-> None]
    /\ UNCHANGED entities
    /\ UNCHANGED coordVars
    /\ UNCHANGED clientVars

\* _auth_pkce on its own.
AuthPkce ==
    /\ \E c \in HeldTokens :
          \E p \in _auth_pkce(c) :
              probe' = [fn |-> "_auth_pkce", before |-> c, after |-> p.c,
                        ok |-> IsNone(p.error), calls |-> p.calls, error |-> p.error]
    /\ UNCHANGED entities
    /\ UNCHANGED coordVars
    /\ UNCHANGED clientVars

LoginInit == Constructed /\ outage = TRUE

LoginNext == TryRefresh \/ TryRopc \/ AuthPkce

\* Each login step applied to every pair of held tokens, against servers that
\* answer as they please.
LoginSpec == LoginInit /\ [][LoginNext]_vars

\* ------------------------------------------------- the range backfill
\* The days a range backfill is tried on: RangeSpan days from FirstDay on.
RangeSpan == 4
RangeDays == FirstDay .. (FirstDay + RangeSpan)
\* The sink's latest point when the backfill starts: none, or a point of one
\* of these days, with a sum that is zero or positive.
RangeLastStats ==
    {None} \cup
    {Some([start |-> StartOfLocalDay(d), state |-> Unit, sum |-> m]) :
        d \in RangeDays, m \in {0, TotalLadder[1] * Unit}}
\* The per-day values tried: negative, zero, a whole and a rounded quotient.
RangePerDay == {-Milli, 0, 3333 * Milli, TotalLadder[1] * Unit}

\* _update_statistics_range on its own, for any window, per-day value and
\* latest point of the sink.
BackfillRange ==
    /\ \E last_stat \in RangeLastStats :
          \E start_date \in RangeDays, end_date \in RangeDays :
              \E per_day \in RangePerDay :
                  probe' = [fn |-> "UpdateStatisticsRange", last_stat |-> last_stat,
                            start_date |-> start_date, end_date |-> end_date,
                            per_day |-> per_day,
                            stats |-> UpdateStatisticsRange(last_stat, "eau_froide",
                                                            UnitOf("eau_froide"),
                                                            start_date, end_date, per_day)]
    /\ UNCHANGED entities
    /\ UNCHANGED coordVars
    /\ UNCHANGED clientVars

RangeInit == Constructed /\ outage = TRUE

RangeNext == BackfillRange

RangeSpec == RangeInit /\ [][RangeNext]_vars

\* ------------------------------------------- what the properties read
\* A poll has returned its OceaData and the scheduler has not yet taken it.
Returned == ~IsNone(data)
\* The returned poll's result for a fluid.
Result(k) == Get(data)[k]
\* The total the provider reported for the fluid in the returned poll.
Reading(k) == Get(poll).latest_value[k]
\* The fluid's persisted baseline as the returned poll found it.
Before(k) == Get(poll).before[k]
\* The latest point of the fluid's series as the returned poll found it.
LastStatBefore(k) == Get(poll).last_stat[k]
\* The day an ISO date string names.
DateOf(iso) == Ordinal(iso[1], iso[2], iso[3])
\* The effective date of the returned poll's reading.
EffDate(k) == DateOf(Result(k).latest_date)
HasBaseline(k) == ~IsNone(Before(k).last_total) /\ ~IsNone(Before(k).last_total_at)
SameCalendarMonth(a, b) == YearOf(a) = YearOf(b) /\ MonthOf(a) = MonthOf(b)
\* x is a multiple of 0.001 nearest to n / d.
NearestMilli(x, n, d) ==
    /\ x % Milli = 0
    /\ 2 * (x * d - n) <= Milli * d
    /\ 2 * (n - x * d) <= Milli * d

\* ------------------------------------------------- baseline properties
\* C1: for every fluid, once the persisted last_total_at is present it stays
\* present and never moves to an earlier date: every step of the system, and
\* so every poll that rewrites the baseline, leaves a date that is not before
\* the one it found.
LastTotalAtNeverDecreases ==
    [][\A k \in FluidKeys :
          ~IsNone(store[k].last_total_at) =>
              /\ ~IsNone(store'[k].last_total_at)
              /\ DateOf(store'[k].last_total_at) >= DateOf(store[k].last_total_at)]_vars

\* A poll found a baseline and moved it to a later date.
BaselineDateAdvanced ==
    /\ Returned
    /\ \E k \in FluidKeys :
          /\ HasBaseline(k)
          /\ DateOf(store[k].last_total_at) > DateOf(Before(k).last_total_at)

\* C2: after every poll whose value_status is ok the persisted last_total is
\* that poll's reported total, whatever the earlier polls reported (and so in
\* particular along a sequence of non-decreasing totals and dates).
OkPollPersistsItsTotal ==
    Returned =>
        \A k \in FluidKeys :
            Result(k).value_status = "ok" =>
                /\ ~IsNone(Reading(k))
                /\ store[k].last_total = Reading(k)

\* An ok poll over an existing baseline, with a larger total and a date that
\* is not earlier.
OkPollAfterBaseline ==
    /\ Returned
    /\ \E k \in FluidKeys :
          /\ HasBaseline(k)
          /\ Result(k).value_status = "ok"
          /\ Get(Reading(k)) > Get(Before(k).last_total)
          /\ EffDate(k) >= DateOf(Before(k).last_total_at)

\* C3: the persisted state of a fluid changes only in a step in which a poll
\* returns with value_status ok for it; a poll ending stale, invalid or
\* missing leaves (last_total, last_total_at) as it found them; and an ok poll
\* that found no baseline, or a baseline with another total, leaves the
\* baseline (its total, its effective date).
BaselineFrame ==
    [][\A k \in FluidKeys :
          /\ store'[k] # store[k] =>
                /\ IsNone(data) /\ ~IsNone(data')
                /\ Get(data')[k].value_status = "ok"
          /\ (IsNone(data) /\ ~IsNone(data')
                /\ Get(data')[k].value_status = "ok"
                /\ (IsNone(store[k].last_total)
                      \/ store[k].last_total # Get(poll').latest_value[k])) =>
                store'[k] = [last_total |-> Get(poll').latest_value[k],
                             last_total_at |-> Get(data')[k].latest_date]]_vars

\* A poll found a baseline, did not end ok and has left the baseline alone.
NotOkPollKeptBaseline ==
    /\ Returned
    /\ \E k \in FluidKeys :
          /\ HasBaseline(k)
          /\ ~IsNone(Reading(k))
          /\ Result(k).value_status # "ok"
          /\ store[k] = Before(k)

DecreaseWithinMonth(k) ==
    /\ HasBaseline(k)
    /\ ~IsNone(Reading(k))
    /\ SameCalendarMonth(EffDate(k), DateOf(Before(k).last_total_at))
    /\ Get(Reading(k)) + Epsilon < Get(Before(k).last_total)

\* C5 as stated: a reading below the baseline total by more than 1e-6, in
\* the calendar month of the baseline date, is reported with value_status
\* invalid.
DecreaseReportedInvalid ==
    Returned =>
        \A k \in FluidKeys :
            DecreaseWithinMonth(k) => Result(k).value_status = "invalid"

\* C5, amended: such a reading is never reported ok; the baseline total
\* stands in for it, so the poll reports value_status stale with the baseline
\* total as its total, and leaves the baseline as it found it.
DecreaseReportedStale ==
    Returned =>
        \A k \in FluidKeys :
            DecreaseWithinMonth(k) =>
                /\ Result(k).value_status = "stale"
                /\ Result(k).total = Before(k).last_total
                /\ store[k] = Before(k)

\* A poll with a non-negative reading below the baseline total, dated in the
\* baseline's month and not before the baseline date.
DecreaseWithinMonthSeen ==
    /\ Returned
    /\ \E k \in FluidKeys :
          /\ DecreaseWithinMonth(k)
          /\ Get(Reading(k)) > 0
          /\ EffDate(k) >= DateOf(Before(k).last_total_at)

\* C6: a reading equal to the baseline total with an effective date after
\* the baseline date is reported with value_status stale and daily_status
\* stale, hands no point to the sink and leaves the baseline unchanged.
UnchangedTotalIsStale ==
    Returned =>
        \A k \in FluidKeys :
            (/\ HasBaseline(k)
             /\ Reading(k) = Before(k).last_total
             /\ EffDate(k) > DateOf(Before(k).last_total_at)) =>
                /\ Result(k).value_status = "stale"
                /\ Result(k).daily_status = "stale"
                /\ appended[k] = <<>>
                /\ store[k] = Before(k)

\* A poll read the baseline total again, on a later date.
UnchangedTotalSeen ==
    /\ Returned
    /\ \E k \in FluidKeys :
          /\ HasBaseline(k)
          /\ Reading(k) = Before(k).last_total
          /\ EffDate(k) > DateOf(Before(k).last_total_at)

\* The reading cannot be used as it is: no value, a negative value, a date
\* before the baseline date, or a zero or a decrease in the baseline's month.
Unusable(k) ==
    \/ IsNone(Reading(k))
    \/ Get(Reading(k)) < 0
    \/ /\ HasBaseline(k)
       /\ \/ EffDate(k) < DateOf(Before(k).last_total_at)
          \/ /\ SameCalendarMonth(EffDate(k), DateOf(Before(k).last_total_at))
             /\ \/ Get(Reading(k)) = 0 /\ Get(Before(k).last_total) > 0
                \/ Get(Reading(k)) + Epsilon < Get(Before(k).last_total)

\* C7: an unusable reading is reported as the baseline total with
\* value_status stale when a baseline total exists; with no baseline total
\* the reported total is null and value_status is missing (no value) or
\* invalid.  The reported total is never negative, and a poll with no value
\* reports the baseline total or null.
FallbackSubstitution ==
    Returned =>
        \A k \in FluidKeys :
            /\ (Unusable(k) /\ ~IsNone(Before(k).last_total)) =>
                   /\ Result(k).total = Before(k).last_total
                   /\ Result(k).value_status = "stale"
            /\ (Unusable(k) /\ IsNone(Before(k).last_total)) =>
                   /\ IsNone(Result(k).total)
                   /\ Result(k).value_status =
                          IF IsNone(Reading(k)) THEN "missing" ELSE "invalid"
            /\ ~IsNone(Result(k).total) => Get(Result(k).total) >= 0
            /\ IsNone(Reading(k)) =>
                   (IsNone(Result(k).total) \/ Result(k).total = Before(k).last_total)

\* A poll with a negative reading over an existing baseline.
NegativeReadingOverBaseline ==
    /\ Returned
    /\ \E k \in FluidKeys :
          /\ HasBaseline(k)
          /\ ~IsNone(Reading(k))
          /\ Get(Reading(k)) < 0
          /\ Result(k).total = Before(k).last_total

\* A positive reading below the baseline total, dated after the baseline
\* date in another calendar month (another year or another month number).
LowerTotalInLaterMonth(k) ==
    /\ HasBaseline(k)
    /\ ~IsNone(Reading(k))
    /\ Get(Reading(k)) > 0
    /\ Get(Reading(k)) < Get(Before(k).last_total)
    /\ EffDate(k) > DateOf(Before(k).last_total_at)
    /\ ~SameCalendarMonth(EffDate(k), DateOf(Before(k).last_total_at))

\* C8 (for readings T1 > 0): a reading (T1, D1) below the baseline total,
\* dated after the baseline date in another calendar month, is a meter
\* reset: value_status is ok, daily_source is month_reset, the daily value is
\* T1 spread over the days from the 1st of D1's month to D1, the points
\* appended are dated in that window, and the baseline becomes (T1, D1).
MonthResetAcrossMonths ==
    Returned =>
        \A k \in FluidKeys :
            LowerTotalInLaterMonth(k) =>
                /\ Result(k).value_status = "ok"
                /\ Result(k).daily_source = Some("month_reset")
                /\ ~IsNone(Result(k).daily)
                /\ NearestMilli(Get(Result(k).daily), Get(Reading(k)), DayOf(EffDate(k)))
                /\ \A i \in 1..Len(appended[k]) :
                       /\ DateFromTimestamp(appended[k][i].start) >= ReplaceDay1(EffDate(k))
                       /\ DateFromTimestamp(appended[k][i].start) <= EffDate(k)
                /\ store[k] = [last_total |-> Reading(k),
                               last_total_at |-> Result(k).latest_date]

\* An ok reading above the baseline total, dated n >= 1 days after the
\* baseline date, with a sink that did not raise and is empty or has its
\* last point on the baseline date.
BackfillCase(k) ==
    /\ HasBaseline(k)
    /\ ~Get(poll).sink_error[k]
    /\ Result(k).value_status = "ok"
    /\ Get(Reading(k)) > Get(Before(k).last_total)
    /\ EffDate(k) > DateOf(Before(k).last_total_at)
    /\ \/ IsNone(LastStatBefore(k))
       \/ DateFromTimestamp(Get(LastStatBefore(k)).start) = DateOf(Before(k).last_total_at)

BackfillDays(k) == EffDate(k) - DateOf(Before(k).last_total_at)
BackfillDelta(k) == Get(Reading(k)) - Get(Before(k).last_total)
SumBefore(k) == IF IsNone(LastStatBefore(k)) THEN 0 ELSE Get(LastStatBefore(k)).sum

\* C9 as stated: the poll appends exactly N points, dated D+1 .. D+N in
\* order, each with state (T1 - T0) / N and with sums S + j * (T1 - T0) / N.
MultiDayBackfillExact ==
    Returned =>
        \A k \in FluidKeys :
            BackfillCase(k) =>
                /\ Len(appended[k]) = BackfillDays(k)
                /\ \A j \in 1..Len(appended[k]) :
                       /\ DateFromTimestamp(appended[k][j].start) =
                              DateOf(Before(k).last_total_at) + j
                       /\ appended[k][j].state * BackfillDays(k) = BackfillDelta(k)
                       /\ appended[k][j].sum * BackfillDays(k) =
                              SumBefore(k) * BackfillDays(k) + j * BackfillDelta(k)

\* C9, amended: the poll appends exactly N points, dated D+1 .. D+N in
\* order, each with the same state p, which is (T1 - T0) / N rounded to three
\* decimals, and with sums S + j * p.
MultiDayBackfillRounded ==
    Returned =>
        \A k \in FluidKeys :
            BackfillCase(k) =>
                /\ Len(appended[k]) = BackfillDays(k)
                /\ \A j \in 1..Len(appended[k]) :
                       /\ DateFromTimestamp(appended[k][j].start) =
                              DateOf(Before(k).last_total_at) + j
                       /\ appended[k][j].state = appended[k][1].state
                       /\ NearestMilli(appended[k][j].state, BackfillDelta(k), BackfillDays(k))
                       /\ appended[k][j].sum = SumBefore(k) + j * appended[k][j].state

\* A poll backfilled several days on top of a sink holding a positive sum.
MultiDayBackfillSeen ==
    /\ Returned
    /\ \E k \in FluidKeys :
          /\ BackfillCase(k)
          /\ BackfillDays(k) >= 2
          /\ SumBefore(k) > 0
          /\ Len(appended[k]) = BackfillDays(k)

\* An ok reading above the baseline total on the baseline's date, with a
\* sink that did not raise and has its last point on that date.
SameDayCase(k) ==
    /\ HasBaseline(k)
    /\ ~Get(poll).sink_error[k]
    /\ Result(k).value_status = "ok"
    /\ Get(Reading(k)) > Get(Before(k).last_total)
    /\ EffDate(k) = DateOf(Before(k).last_total_at)
    /\ ~IsNone(LastStatBefore(k))
    /\ DateFromTimestamp(Get(LastStatBefore(k)).start) = EffDate(k)

\* C10 as stated: the sink's last point (s, c) is rewritten for the same
\* date as (s + delta, c + delta), a state that is not negative.
SameDayCorrectionExact ==
    Returned =>
        \A k \in FluidKeys :
            SameDayCase(k) =>
                /\ appended[k] =
                       <<[start |-> Get(LastStatBefore(k)).start,
                          state |-> Get(LastStatBefore(k)).state + BackfillDelta(k),
                          sum   |-> Get(LastStatBefore(k)).sum + BackfillDelta(k)]>>
                /\ appended[k][1].state >= 0

\* C10, amended: the sink's last point (s, c) is rewritten for the same date
\* as (s2, c + s2 - s), where s2 is s + delta rounded to three decimals and
\* is not negative; s2 is the poll's daily value, with daily_status corrected.
SameDayCorrectionRounded ==
    Returned =>
        \A k \in FluidKeys :
            SameDayCase(k) =>
                /\ Len(appended[k]) = 1
                /\ appended[k][1].start = Get(LastStatBefore(k)).start
                /\ NearestMilli(appended[k][1].state,
                                Get(LastStatBefore(k)).state + BackfillDelta(k), 1)
                /\ appended[k][1].sum =
                       Get(LastStatBefore(k)).sum
                           + (appended[k][1].state - Get(LastStatBefore(k)).state)
                /\ appended[k][1].state >= 0
                /\ Result(k).daily = Some(appended[k][1].state)
                /\ Result(k).daily_status = "corrected"

\* Baseline 10 and a same-day reading of 12: state and sum both moved by 2.
SameDayCorrectionSeen ==
    /\ Returned
    /\ \E k \in FluidKeys :
          /\ SameDayCase(k)
          /\ Before(k).last_total = Some(10 * Unit)
          /\ Reading(k) = Some(12 * Unit)
          /\ Len(appended[k]) = 1
          /\ appended[k][1].state = Get(LastStatBefore(k)).state + 2 * Unit
          /\ appended[k][1].sum = Get(LastStatBefore(k)).sum + 2 * Unit


\* ------------------------------------------------ failures and statuses
\* The snapshot the returned poll was handed for a fluid.
RawEntry(k) ==
    [latest_value |-> Reading(k), latest_date |-> Get(poll).latest_date[k],
     leak_estimate |-> None]
\* The fluid's iteration of the returned poll, had no statistics call raised.
HadSinkSucceeded(k) ==
    ReconcileFluid(k, RawEntry(k), Get(poll).now, Before(k), LastStatBefore(k), FALSE)

\* C11: whenever a statistics call of a poll raised for a fluid (reading the
\* series' last point or appending, in a range backfill or a same-day
\* correction), the poll still returned a result for each of the three
\* fluids, that fluid's store entry and reported baseline are the ones the
\* poll would have left had the call succeeded, and the store on disk is the
\* store the poll left.
SinkFailureSwallowed ==
    Returned =>
        \A k \in FluidKeys :
            Get(poll).sink_error[k] =>
                /\ DOMAIN Get(data) = FluidKeys
                /\ store[k] = HadSinkSucceeded(k).fluid_store
                /\ Result(k).last_total = HadSinkSucceeded(k).data.last_total
                /\ Result(k).last_total_at = HadSinkSucceeded(k).data.last_total_at
                /\ Result(k).value_status = HadSinkSucceeded(k).data.value_status
                /\ disk = Some(store)

\* A statistics call raised in a poll that moved the fluid's baseline, and
\* whose points the sink therefore never got.
SinkFailedWhileBaselineMoved ==
    /\ Returned
    /\ \E k \in FluidKeys :
          /\ Get(poll).sink_error[k]
          /\ HasBaseline(k)
          /\ store[k] # Before(k)
          /\ Len(HadSinkSucceeded(k).stats) > 0
          /\ appended[k] = <<>>


\* C12: after every poll the value_status reported for each fluid is one of
\* ok, stale, invalid, missing, never the placeholder "unknown", whatever
\* the snapshot (total absent, negative, zero, lower, equal, higher; date
\* absent, earlier, equal, later) and whether or not a baseline was held.
ValueStatusIsReported ==
    Returned =>
        \A k \in FluidKeys : Result(k).value_status \in {"ok", "stale", "invalid", "missing"}

\* A poll took none of the classifying branches: a baseline was held and the
\* reading, dated later in the baseline's month, had a higher total; its
\* placeholder status was reported as ok.
UnclassifiedReadingReportedOk ==
    /\ Returned
    /\ \E k \in FluidKeys :
          /\ HasBaseline(k)
          /\ ~IsNone(Reading(k))
          /\ Get(Reading(k)) > Get(Before(k).last_total)
          /\ EffDate(k) > DateOf(Before(k).last_total_at)
          /\ SameCalendarMonth(EffDate(k), DateOf(Before(k).last_total_at))
          /\ Result(k).value_status = "ok"


\* ------------------------------------------------------- failed polls
\* A poll has raised UpdateFailed and the scheduler has not yet taken it.
Raised == ~IsNone(failed)
\* The retry counter as the failed poll found it.
CountBefore == Get(failed).count_before

\* C17: a failed poll carries the retry-after hint exactly when fetch raised
\* an authentication error whose message holds "HTTP 401" while the retry
\* counter was below AUTH_RETRY_MAX, and the counter was then incremented;
\* every other failure (another authentication error, any other exception, a
\* 401 with the budget used up) carries no hint.  The counter is always
\* within 0..AUTH_RETRY_MAX.
RetryHintOnlyFor401WithinBudget ==
    /\ auth_retry_count \in 0..AUTH_RETRY_MAX
    /\ Raised =>
          /\ Get(failed).retry_after <=>
                (Get(failed).kind = "auth_401" /\ CountBefore < AUTH_RETRY_MAX)
          /\ Get(failed).retry_after => auth_retry_count = CountBefore + 1

\* A 401 failure got the hint with the last unit of the budget.
LastHintedFailure ==
    /\ Raised
    /\ Get(failed).kind = "auth_401"
    /\ Get(failed).retry_after
    /\ auth_retry_count = AUTH_RETRY_MAX


\* C18: once the retry counter has reached AUTH_RETRY_MAX, no failed poll
\* whose fetch raised an "HTTP 401" authentication error carries the
\* retry-after hint until a fetch returns; a poll whose fetch returned leaves
\* the counter at 0; and no more than AUTH_RETRY_MAX failed polls carry the
\* hint between two fetches that returned.
QuickRetriesBoundedBetweenSuccesses ==
    /\ since_ok.hinted <= AUTH_RETRY_MAX
    /\ Raised /\ Get(failed).exhausted_before /\ Get(failed).kind = "auth_401"
          => ~Get(failed).retry_after
    /\ Returned => auth_retry_count = 0


\* ------------------------------------------------- the client's tokens
\* The paths of the API, whose requests carry the bearer token.
ApiPaths == {"/resident", "/conso"}
\* The exchanges of the observed call, and those of them that went to the API.
Exchanges == call.calls
ApiRequests == {i \in 1..Len(Exchanges) : Exchanges[i].to \in ApiPaths}

\* C13: when _ensure_token has returned without raising, the client holds a
\* non-empty access token, and every request _get or _post sends to the API
\* carries a non-empty bearer token.
EnsureTokenYieldsBearer ==
    /\ call.op = "_ensure_token" /\ IsNone(call.error) => Truthy(access_token)
    /\ \A i \in ApiRequests : Truthy(Exchanges[i].held.access_token)


\* C14: _ensure_token tries the cached token, the refresh grant, the
\* password grant and the interactive flow in this order and stops at the
\* first that yields a token: with a cached access token it makes no
\* exchange; the refresh grant is requested, first of all, only when a
\* refresh token is held; the password grant follows only a refresh step
\* that yielded no token; the interactive flow follows only a password grant
\* that yielded no token; and no exchange is made once a token is held.
LoginCascadeInOrder ==
    call.op = "_ensure_token" =>
        /\ Truthy(call.before.access_token) =>
              /\ Exchanges = <<>>
              /\ Tokens = call.before
        /\ ~Truthy(call.before.access_token) =>
              /\ Len(Exchanges) >= 1
              /\ Exchanges[1].to = IF Truthy(call.before.refresh_token)
                                   THEN "refresh" ELSE "ropc"
        /\ \A i \in 1..Len(Exchanges) :
              /\ Exchanges[i].to \in {"refresh", "ropc", "pkce"}
              /\ ~Truthy(Exchanges[i].held.access_token)
              /\ Exchanges[i].to = "refresh" =>
                    i = 1 /\ Truthy(call.before.refresh_token)
              /\ Exchanges[i].to = "ropc" =>
                    \/ i = 1 /\ ~Truthy(call.before.refresh_token)
                    \/ i = 2 /\ Exchanges[1].to = "refresh"
              /\ Exchanges[i].to = "pkce" =>
                    i > 1 /\ Exchanges[i - 1].to = "ropc"
              /\ i < Len(Exchanges) /\ Exchanges[i].to = "refresh" =>
                    Exchanges[i + 1].to = "ropc"
        /\ (Len(Exchanges) >= 1 /\ Exchanges[Len(Exchanges)].to # "pkce") =>
              Truthy(access_token)

\* The cascade went through the refresh grant and the password grant, which
\* yielded no token, and got its token from the interactive flow.
CascadeEndedInInteractiveFlow ==
    /\ call.op = "_ensure_token"
    /\ Len(Exchanges) = 3
    /\ Exchanges[1].to = "refresh"
    /\ Exchanges[3].to = "pkce"
    /\ Truthy(access_token)


\* ------------------------------------------------ authorized requests
\* The observed call is an authorized request that got as far as the API.
Requested == call.op \in {"_get", "_post"} /\ ApiRequests # {}
\* The first request to the API, and the exchanges that follow it.
FirstRequest == CHOOSE i \in ApiRequests : \A j \in ApiRequests : i <= j
AfterFirst == (FirstRequest + 1) .. Len(Exchanges)
\* The exchanges of the re-authentication.
ReAuth == {i \in AfterFirst : Exchanges[i].to \notin ApiPaths}

\* C15: in every call of _get or _post, only a 401 answer to the first
\* request starts a re-authentication, and at most one: the refresh grant at
\* most once and first, the interactive flow at most once and only when the
\* refresh step yielded no token, never the password grant.  The request is
\* sent at most twice; the second request follows a re-authentication that
\* succeeded, carries the token it left and ends the call.  A failed
\* re-authentication raises the authentication error of the 401 without a
\* second request; a final status of 400 or more raises the authentication
\* error of that status.
OneReAuthOneRetry ==
    Requested =>
        /\ Cardinality(ApiRequests) <= 2
        /\ Exchanges[FirstRequest].status # 401 =>
              /\ AfterFirst = {}
              /\ call.error = IF Exchanges[FirstRequest].status >= 400
                              THEN Some(HttpError(Exchanges[FirstRequest].status))
                              ELSE None
        /\ Exchanges[FirstRequest].status = 401 =>
              /\ ReAuth # {}
              /\ \A i \in ReAuth :
                    /\ i <= FirstRequest + 2
                    /\ Exchanges[i].to \in {"refresh", "pkce"}
                    /\ Exchanges[i].to = "refresh" => i = FirstRequest + 1
                    /\ Exchanges[i].to = "pkce" =>
                          \/ i = FirstRequest + 1
                                /\ ~Truthy(Exchanges[FirstRequest].held.refresh_token)
                          \/ i = FirstRequest + 2
                                /\ Exchanges[i - 1].to = "refresh"
              /\ \A i \in AfterFirst :
                    Exchanges[i].to \in ApiPaths =>
                        /\ i = Len(Exchanges)
                        /\ i - 1 \in ReAuth
                        /\ Exchanges[i - 1].status = 200
                        /\ Exchanges[i].to = Exchanges[FirstRequest].to
                        /\ Exchanges[i].held = Tokens
                        /\ Truthy(Exchanges[i].held.access_token)
                        /\ call.error = IF Exchanges[i].status >= 400
                                        THEN Some(HttpError(Exchanges[i].status))
                                        ELSE None
              /\ Cardinality(ApiRequests) = 1 =>
                    /\ ~Truthy(access_token)
                    /\ call.error = Some(HttpError(401))
              /\ Truthy(access_token) => Cardinality(ApiRequests) = 2


\* C16: whenever the handling of a 401 goes on to the interactive flow, the
\* client holds neither an access token nor a refresh token when the flow
\* starts, whatever it held when the request was sent.
InteractiveFlowStartsWithoutTokens ==
    Requested =>
        \A i \in ReAuth :
            Exchanges[i].to = "pkce" =>
                Exchanges[i].held = [access_token |-> None, refresh_token |-> None]

\* A request sent while both tokens were held was answered 401, the refresh
\* grant failed, and the interactive flow started.
FullLoginAfterHeldTokens ==
    /\ Requested
    /\ Truthy(Exchanges[FirstRequest].held.access_token)
    /\ Truthy(Exchanges[FirstRequest].held.refresh_token)
    /\ \E i \in ReAuth : Exchanges[i].to = "pkce"


\* ------------------------------------------------------ a poll is a unit
\* The snapshots a fetch that returned hands to the poll.
Fetched == [k \in FluidKeys |-> fetch.results[IndexOf(k)]]

\* C19: with respect to what is persisted a poll completes or fails as a
\* unit.  No step of a poll but the completion of one whose fetch returned
\* changes a fluid's store entry, the store on disk or a series of the sink,
\* or hands points to the sink: not the profile lookup, not a consumption
\* query, and not the failure of a poll whose fetch raised on any of them.
\* The completion follows three parsed consumption results, reconciles every
\* fluid, and leaves on disk the store it leaves in memory.
PollIsAUnit ==
    [][/\ fetch.pc # "returned" =>
              /\ store' = store
              /\ disk' = disk
              /\ sink' = sink
              /\ appended' = NoPoints
       /\ fetch.pc = "raised" =>
              /\ ~IsNone(failed')
              /\ IsNone(data')
       /\ fetch.pc = "returned" =>
              /\ Len(fetch.results) = Len(FLUIDS)
              /\ fetch.queries >= Len(FLUIDS)
              /\ ~IsNone(data')
              /\ DOMAIN Get(data') = FluidKeys
              /\ \A k \in FluidKeys :
                    store'[k] = ReconcileFluid(k, Fetched[k], today, store[k], sink[k],
                                               FALSE).fluid_store
              /\ disk' = Some(store')]_vars

\* A fetch raised on its third consumption query, after an earlier poll had
\* saved a baseline, and the poll failed with the store and the disk as that
\* earlier poll left them.
FailedOnThirdQuery ==
    /\ Raised
    /\ fetch.pc = "done"
    /\ Len(fetch.results) = 2
    /\ \E k \in FluidKeys : ~IsNone(store[k].last_total)
    /\ store = Get(failed).before
    /\ disk = Some(store)


\* C20: when the profile lookup answers with a record that has no
\* occupations, fetch raises before it has sent any consumption query, and
\* the poll fails with no retry-after hint, the retry counter at 0, and every
\* fluid's store entry, the store on disk and the sink's series as they were.
NoOccupationsFailsThePoll ==
    fetch.error = Some(NoOccupations) =>
        /\ fetch.pc \in {"raised", "done"}
        /\ fetch.queries = 0
        /\ fetch.results = <<>>
        /\ IsNone(data)
        /\ fetch.pc = "done" =>
              /\ Raised
              /\ ~Get(failed).retry_after
              /\ Get(failed).kind = "auth_other"
              /\ auth_retry_count = 0
              /\ store = Get(failed).before
              /\ appended = NoPoints

\* An account without occupations failed a poll that found the retry counter
\* above 0 and a baseline in the store.
NoOccupationsAfterQuickRetry ==
    /\ fetch.error = Some(NoOccupations)
    /\ fetch.pc = "done"
    /\ Raised
    /\ Get(failed).count_before > 0
    /\ \E k \in FluidKeys : ~IsNone(store[k].last_total)

\* ------------------------------------------------------------ C21
\* The interactive flows of the recorded call whose authorize page had no
\* settings blob, or a blob that is not JSON.
SettingsFailures ==
    {i \in 1..Len(Exchanges) :
        /\ Exchanges[i].to = "pkce"
        /\ Exchanges[i].page \in {"no_settings", "settings_not_json"}}
\* The requests an exchange sent.
SentBy(x) == {x.sent[n] : n \in 1..Len(x.sent)}

\* C21: an interactive flow whose authorize page has no settings blob, or a
\* blob that cannot be parsed, sends no request carrying the credentials and
\* is the last exchange of its call, and the call (_ensure_token, _get or
\* _post, the latter two also when the flow is the re-login after a 401)
\* raises an OceaAuthError.
SettingsFailureIsAuthError ==
    \A i \in SettingsFailures :
        /\ "SelfAsserted" \notin SentBy(Exchanges[i])
        /\ i = Len(Exchanges)
        /\ ~IsNone(call.error)
        /\ Get(call.error).type = "OceaAuthError"

\* The part of C21 the code keeps: no credentials are sent and the call
\* ends with an exception.
SettingsFailureSendsNoCredentials ==
    \A i \in SettingsFailures :
        /\ "SelfAsserted" \notin SentBy(Exchanges[i])
        /\ i = Len(Exchanges)
        /\ ~IsNone(call.error)

\* ------------------------------------------------------------ C22
\* The sensor platform has been set up.
PlatformSetUp == entities # {}

\* C22: once the sensor platform is set up, every fluid of FLUIDS has three
\* entities: its total, its daily estimate and its leak indicator.
ThreeFactsPerFluid ==
    PlatformSetUp =>
        \A k \in FluidKeys :
            \A s \in {"total", "daily", "leak_estimate"} :
                [fluid_key |-> k, key |-> s] \in entities

\* What the platform does set up: the total and the daily estimate of every
\* fluid, and nothing else.
TwoFactsPerFluid ==
    PlatformSetUp =>
        entities = {[fluid_key |-> k, key |-> s] :
                        k \in FluidKeys, s \in {"total", "daily"}}

\* ------------------------------------------------------------ C23
\* An effective date has been resolved.
DateResolved == probe.fn = "EffectiveDate"
\* The reported date is a 1st of a month.
ReportedOnFirst == ~IsNone(probe.api_date) /\ DayOf(Get(probe.api_date)) = 1
\* The day of the poll is later than the reported date and in another month.
LaterInAnotherMonth ==
    /\ probe.now > Get(probe.api_date)
    /\ ~SameCalendarMonth(probe.now, Get(probe.api_date))

\* C23: the effective date is the day before now exactly when the reported
\* date is absent, or is a 1st of a month while now is later and in another
\* month; otherwise it is the reported date.
EffectiveDateByMonth ==
    DateResolved =>
        probe.current_date =
            IF IsNone(probe.api_date) \/ (ReportedOnFirst /\ LaterInAnotherMonth)
            THEN Some(probe.now - 1)
            ELSE probe.api_date

\* C23, amended: the effective date is the day before now exactly when the
\* reported date is absent, or is a 1st of a month while now is not the 1st
\* of a month; otherwise it is the reported date.
EffectiveDateByDayOfMonth ==
    DateResolved =>
        /\ (IsNone(probe.api_date) \/ (ReportedOnFirst /\ DayOf(probe.now) # 1))
                => probe.current_date = Some(probe.now - 1)
        /\ (~IsNone(probe.api_date) /\ ~(ReportedOnFirst /\ DayOf(probe.now) # 1))
                => probe.current_date = probe.api_date

\* A date reported on the 1st of the month of the poll, two or more days
\* before it, was replaced by the day before the poll.
FirstOfThisMonthReplaced ==
    /\ DateResolved
    /\ ReportedOnFirst
    /\ SameCalendarMonth(probe.now, Get(probe.api_date))
    /\ probe.now > Get(probe.api_date) + 1
    /\ probe.current_date = Some(probe.now - 1)

\* ------------------------------------------------------------ C24
\* A range backfill has run with a per-day value that is not negative.
RangeApplied == probe.fn = "UpdateStatisticsRange" /\ probe.per_day >= 0
\* The date and the sum of the sink's latest point when it started.
LastPushed == DateFromTimestamp(Get(probe.last_stat).start)
LastSum == IF IsNone(probe.last_stat) THEN 0 ELSE Get(probe.last_stat).sum
\* The day the emitted points follow: the later of the window start and the
\* sink's latest point.
RangeFrom ==
    IF ~IsNone(probe.last_stat) /\ LastPushed > probe.start_date
    THEN LastPushed ELSE probe.start_date

\* C24: a range backfill over a sink holding a latest point emits one point
\* for each day after that point's date up to the effective date, in date
\* order, with sums that grow from the point's sum by the per-day value; it
\* emits nothing when that point is on or after the effective date.
RangeFromLastPushed ==
    (RangeApplied /\ ~IsNone(probe.last_stat)) =>
        IF LastPushed >= probe.end_date
        THEN probe.stats = <<>>
        ELSE /\ Len(probe.stats) = probe.end_date - LastPushed
             /\ \A j \in 1..Len(probe.stats) :
                    /\ DateFromTimestamp(probe.stats[j].start) = LastPushed + j
                    /\ probe.stats[j].sum = LastSum + j * probe.per_day

\* C24, amended: a range backfill emits one point for each day after the
\* later of its window start and the sink's latest point, up to the
\* effective date, in date order, each with the per-day value as its state
\* and with sums that grow from the sink's latest sum (zero for an empty sink)
\* by the per-day value; it emits nothing when that later day is on or after
\* the effective date.  Every emitted date is after the sink's latest point.
RangeFromWindowOrLastPushed ==
    RangeApplied =>
        /\ IF RangeFrom >= probe.end_date
           THEN probe.stats = <<>>
           ELSE /\ Len(probe.stats) = probe.end_date - RangeFrom
                /\ \A j \in 1..Len(probe.stats) :
                       /\ DateFromTimestamp(probe.stats[j].start) = RangeFrom + j
                       /\ probe.stats[j].state = probe.per_day
                       /\ probe.stats[j].sum = LastSum + j * probe.per_day
        /\ \A j \in 1..Len(probe.stats) :
               /\ j > 1 => /\ probe.stats[j].start > probe.stats[j - 1].start
                           /\ probe.stats[j].sum >= probe.stats[j - 1].sum
               /\ ~IsNone(probe.last_stat) =>
                      /\ DateFromTimestamp(probe.stats[j].start) > LastPushed
                      /\ probe.stats[j].sum >= LastSum

\* A range backfill emitted several points over a sink whose latest point is
\* older than the window start, leaving the days in between without a point.
RangeLeftAGap ==
    /\ RangeApplied
    /\ ~IsNone(probe.last_stat)
    /\ LastPushed < probe.start_date
    /\ Len(probe.stats) >= 2
    /\ DateFromTimestamp(probe.stats[1].start) = probe.start_date + 1

\* ------------------------------------------------------------ C25
\* An ok reading dated after the baseline date.
OtherDayCase(k) ==
    /\ HasBaseline(k)
    /\ Result(k).value_status = "ok"
    /\ EffDate(k) > DateOf(Before(k).last_total_at)
\* The reading is below the baseline total and in another calendar month: a
\* meter reset.
ResetCase(k) ==
    /\ Get(Reading(k)) < Get(Before(k).last_total)
    /\ ~SameCalendarMonth(EffDate(k), DateOf(Before(k).last_total_at))
\* The delta and the start of the delta window: the whole total since the
\* eve of the month on a reset, the difference since the baseline date
\* otherwise.
WindowDelta(k) ==
    IF ResetCase(k) THEN Get(Reading(k))
    ELSE Get(Reading(k)) - Get(Before(k).last_total)
WindowStart(k) ==
    IF ResetCase(k) THEN ReplaceDay1(EffDate(k)) - 1
    ELSE DateOf(Before(k).last_total_at)
WindowDays(k) == EffDate(k) - WindowStart(k)

\* C25: an ok reading dated N >= 1 days after the start of its delta window
\* with delta > 0 is reported with daily = delta / N rounded to 3 decimals,
\* daily_status ok (N = 1) or estimated (N > 1) and source month_reset on a
\* reset, else delta (N = 1) or multi_day_estimate (N > 1); with delta = 0
\* it is reported stale with source no_change and no daily value, and the
\* poll hands no point to the sink.
DailyFromDeltaWindow ==
    Returned =>
        \A k \in FluidKeys :
            (OtherDayCase(k) /\ WindowDays(k) >= 1 /\ WindowDelta(k) >= 0) =>
                IF WindowDelta(k) > 0
                THEN /\ ~IsNone(Result(k).daily)
                     /\ NearestMilli(Get(Result(k).daily), WindowDelta(k), WindowDays(k))
                     /\ Result(k).daily_status =
                            IF WindowDays(k) = 1 THEN "ok" ELSE "estimated"
                     /\ Result(k).daily_source =
                            IF ResetCase(k) THEN Some("month_reset")
                            ELSE IF WindowDays(k) = 1 THEN Some("delta")
                            ELSE Some("multi_day_estimate")
                ELSE /\ IsNone(Result(k).daily)
                     /\ Result(k).daily_status = "stale"
                     /\ Result(k).daily_source = Some("no_change")
                     /\ appended[k] = <<>>

\* ------------------------------------------------------------ C26
\* The daily outcome invalid / invalid_total, without a daily value.
InvalidTotalOutcome(k) ==
    /\ Result(k).daily_status = "invalid"
    /\ Result(k).daily_source = Some("invalid_total")
    /\ IsNone(Result(k).daily)
\* The final value_status is neither ok nor stale and a total is reported.
NotOkWithTotal(k) ==
    /\ Result(k).value_status \notin {"ok", "stale"}
    /\ ~IsNone(Result(k).total)

\* The statement of C26: the outcome invalid / invalid_total is reported
\* for exactly the polls whose final value_status is neither ok nor stale
\* while a total is reported.
InvalidTotalExactlyWithFallback ==
    Returned => \A k \in FluidKeys : InvalidTotalOutcome(k) <=> NotOkWithTotal(k)

\* Neither side of it is ever reached: a final value_status other than ok
\* and stale comes with no total and with daily_status missing, and no poll
\* reports the source invalid_total.
InvalidTotalNeverReported ==
    Returned =>
        \A k \in FluidKeys :
            /\ Result(k).daily_source # Some("invalid_total")
            /\ Result(k).value_status \notin {"ok", "stale"} =>
                   /\ IsNone(Result(k).total)
                   /\ Result(k).daily_status = "missing"

\* ------------------------------------------------------------ C27
\* The fluid held no baseline and the poll read a total that is not negative.
FirstReading(k) ==
    /\ IsNone(Before(k).last_total)
    /\ IsNone(Before(k).last_total_at)
    /\ ~IsNone(Reading(k))
    /\ Get(Reading(k)) >= 0
\* The effective date of the returned poll's reading, from what was read.
ResolvedDate(k) ==
    IF IsNone(Get(poll).latest_date[k])
       \/ (Get(poll).latest_date[k][3] = 1 /\ DayOf(Get(poll).now) > 1)
    THEN IsoFormat(Get(poll).now - 1)
    ELSE Get(poll).latest_date[k]

\* C27: the first reading of a fluid, with a total that is present and not
\* negative, is reported with value_status ok and daily_status missing
\* without a daily value, hands no point to the sink, and makes (total,
\* effective date) the baseline, in the result and in the store.
FirstReadingSetsBaseline ==
    Returned =>
        \A k \in FluidKeys :
            FirstReading(k) =>
                /\ Result(k).value_status = "ok"
                /\ Result(k).total = Reading(k)
                /\ Result(k).daily_status = "missing"
                /\ IsNone(Result(k).daily)
                /\ appended[k] = <<>>
                /\ sink[k] = LastStatBefore(k)
                /\ Result(k).latest_date = ResolvedDate(k)
                /\ Result(k).last_total = Reading(k)
                /\ Result(k).last_total_at = ResolvedDate(k)
                /\ store[k] = [last_total |-> Reading(k),
                               last_total_at |-> ResolvedDate(k)]

\* A fluid's first reading was zero, on a later poll than another fluid's.
FirstReadingOfZero ==
    /\ Returned
    /\ \E k \in FluidKeys :
          /\ FirstReading(k)
          /\ Get(Reading(k)) = 0
          /\ store[k].last_total = Some(0)
          /\ \E j \in FluidKeys : ~IsNone(Before(j).last_total)

\* ------------------------------------------------------------ C28
\* C28: after every poll that returns, the total reported for each fluid is
\* the baseline total of the result, of the store and of the saved store;
\* it is null exactly when the fluid held no baseline before the poll and the
\* poll did not accept its reading as ok (from the empty store on: when no
\* reading has been accepted yet).
ReportedTotalIsBaseline ==
    Returned =>
        \A k \in FluidKeys :
            /\ Result(k).total = Result(k).last_total
            /\ Result(k).last_total = store[k].last_total
            /\ disk = Some(store)
            /\ IsNone(Result(k).total) <=>
                   (IsNone(Before(k).last_total) /\ Result(k).value_status # "ok")
            /\ IsNone(Before(k).last_total) <=> IsNone(Before(k).last_total_at)

\* A poll read no total for a fluid holding a baseline and reported the
\* baseline total, while another fluid has never had a reading accepted.
AbsentReadingReportsBaseline ==
    /\ Returned
    /\ \E k \in FluidKeys :
          /\ HasBaseline(k)
          /\ IsNone(Reading(k))
          /\ ~IsNone(Result(k).total)
          /\ Result(k).total = store[k].last_total
    /\ \E j \in FluidKeys : IsNone(Result(j).total) /\ IsNone(store[j].last_total)

\* ------------------------------------------------------------ C29
\* The fluid's iteration of a poll that follows the returned poll at once,
\* with the same snapshot on the same day: it meets the store and the sink
\* the returned poll left.
Repoll(k, sink_raises) ==
    ReconcileFluid(k, RawEntry(k), Get(poll).now, store[k], sink[k], sink_raises)

UnrecordedRevisionCase(k) ==
    /\ HasBaseline(k)
    /\ ~Get(poll).sink_error[k]
    /\ Result(k).value_status = "ok"
    /\ Get(Reading(k)) > Get(Before(k).last_total)
    /\ EffDate(k) = DateOf(Before(k).last_total_at)
    /\ \/ IsNone(LastStatBefore(k))
       \/ DateFromTimestamp(Get(LastStatBefore(k)).start) # EffDate(k)
\* The days and snapshots of a later poll of the fluid.
LaterDays == {d \in Days : d >= Get(poll).now}
LaterSnapshots(now) == [latest_value : RichValues, latest_date : RichDates(now),
                        leak_estimate : {None}]
\* What a later poll adds to the sink's sum, at most: the total it reads on
\* a month reset, else its total less the baseline total it meets, with the
\* rounding of each point.
LaterPollAddsAtMost(k, raw, r) ==
    \A i \in 1..Len(r.stats) :
        /\ ~IsNone(raw.latest_value)
        /\ 2 * Len(r.stats) * r.stats[i].state <=
               2 * (IF r.data.daily_source = Some("month_reset")
                    THEN Get(raw.latest_value)
                    ELSE Get(raw.latest_value) - Get(store[k].last_total))
                   + Len(r.stats) * Milli

\* C30: a same-day upward revision that finds the sink empty, or its last
\* point on another date, writes nothing to the sink and is reported with
\* daily_status corrected and no daily value, and the baseline becomes the
\* revised total on the same date; whatever the next poll reads, on that day
\* or a later one, the points it appends are measured from the revised
\* total, so the revision's delta is not among them.
UnrecordedRevisionIsDropped ==
    Returned =>
        \A k \in FluidKeys :
            UnrecordedRevisionCase(k) =>
                /\ appended[k] = <<>>
                /\ sink[k] = LastStatBefore(k)
                /\ IsNone(Result(k).daily)
                /\ Result(k).daily_status = "corrected"
                /\ Result(k).daily_source = Some("same_day_correction")
                /\ store[k] = [last_total |-> Reading(k),
                               last_total_at |-> Before(k).last_total_at]
                /\ \A now \in LaterDays :
                       \A raw \in LaterSnapshots(now) :
                           LaterPollAddsAtMost(k, raw,
                               ReconcileFluid(k, raw, now, store[k], sink[k], FALSE))

\* A reading of 12 revised a baseline of 10 on the baseline's date while the
\* sink's last point was for an earlier date: the 2 units went unrecorded.
RevisionFoundOlderPoint ==
    /\ Returned
    /\ \E k \in FluidKeys :
          /\ UnrecordedRevisionCase(k)
          /\ ~IsNone(LastStatBefore(k))
          /\ Get(Reading(k)) - Get(Before(k).last_total) = 2 * Unit
          /\ store[k].last_total = Reading(k)
          /\ appended[k] = <<>>
          /\ \E now \in LaterDays :
                 \E raw \in LaterSnapshots(now) :
                     ReconcileFluid(k, raw, now, store[k], sink[k], FALSE).stats # <<>>

\* ------------------------------------------------------------ C31
\* A store's fluid entries each hold a total and its date, or neither, and
\* no negative total.
PairedAndNonNegative(fluids) ==
    \A k \in FluidKeys :
        /\ IsNone(fluids[k].last_total) <=> IsNone(fluids[k].last_total_at)
        /\ ~IsNone(fluids[k].last_total) => Get(fluids[k].last_total) >= 0

OwnIteration(k) ==
    ReconcileFluid(k, RawEntry(k), Get(poll).now, Before(k), LastStatBefore(k),
                   Get(poll).sink_error[k])
\* The same with an empty sink that does not raise: the fluid's snapshot,
\* store entry and the day are all that is left.
WithoutSink(k) ==
    ReconcileFluid(k, RawEntry(k), Get(poll).now, Before(k), None, FALSE)
\* What a returned poll left for the fluid is what `own` holds.
LeftBy(k, own) ==
    /\ Result(k) = own.data
    /\ store[k] = own.fluid_store
    /\ sink[k] = own.series
    /\ appended[k] = own.stats
\* Classification, statuses, reported total and store entry as in `alone`.
ClassifiedAs(k, alone) ==
    /\ Result(k).value_status = alone.data.value_status
    /\ Result(k).total = alone.data.total
    /\ Result(k).daily_status = alone.data.daily_status
    /\ Result(k).daily_source = alone.data.daily_source
    /\ Result(k).latest_date = alone.data.latest_date
    /\ Result(k).last_total = alone.data.last_total
    /\ Result(k).last_total_at = alone.data.last_total_at
    /\ store[k] = alone.fluid_store

LoginStepTried(fn) == probe.fn = fn /\ probe.calls # <<>>
\* The status the token endpoint answered to the step (0: the interactive
\* flow ended before its token request).
TokenStatus == probe.calls[1].status
\* The refresh tokens the token endpoint hands out.
NewRefreshTokens == RefreshValues \ {None}

\* C33: a refresh-token grant or a password grant answered with a status
\* other than 200, and an interactive flow that raises, at whichever step
\* and whatever the exception, leave access_token and refresh_token as they
\* were when the step started; a refresh answered with 200 whose response
\* has no refresh token leaves the refresh token held before.
FailedLoginStepKeepsTokens ==
    /\ (LoginStepTried("_try_refresh") \/ LoginStepTried("_try_ropc")) /\ TokenStatus # 200
           => probe.after = probe.before /\ ~probe.ok
    /\ LoginStepTried("_auth_pkce") /\ ~IsNone(probe.error)
           => probe.after = probe.before
    /\ LoginStepTried("_try_refresh") /\ TokenStatus = 200
           => \/ probe.after.refresh_token \in NewRefreshTokens
              \/ probe.after.refresh_token = probe.before.refresh_token

\* A refresh answered with 200, a new access token and no refresh token: the
\* client holds the new access token and the refresh token it held before.
RefreshKeptPreviousToken ==
    /\ LoginStepTried("_try_refresh")
    /\ TokenStatus = 200
    /\ probe.before = [access_token |-> Some("held_access"),
                       refresh_token |-> Some("held_refresh")]
    /\ probe.after = [access_token |-> Some("access"),
                      refresh_token |-> Some("held_refresh")]
\* The token endpoint refused the interactive flow's token request while
\* the client held tokens.
FlowRefusedAtTokenRequest ==
    /\ LoginStepTried("_auth_pkce")
    /\ probe.error = Some(PkceError)
    /\ probe.calls[1].sent = UpToToken
    /\ Truthy(probe.before.access_token)
    /\ Truthy(probe.before.refresh_token)
    /\ probe.after = probe.before
====
